---- MODULE Spec2Model ----
(***************************************************************************)
(* A model of the radar geometry helpers (drain::radar::Geometry and       *)
(* drain::radar::Coordinates) and of the ODIM I/O utilities                *)
(* (odim_io_utilities.c) of nimbus-rave.                                   *)
(*                                                                         *)
(* The module holds several specifications, one per component.  They share *)
(* the module's variables; a specification keeps the variables of the      *)
(* other components at their idle values.                                  *)
(*   SpecElev   - Geometry::findClosestElevations                          *)
(*   SpecCoord  - Coordinates::setBinPosition called by two threads        *)
(*   SpecHow    - the how-attribute unit conversions                       *)
(*   SpecSource - getIdFromSource and getNodOrCmtFromSource                *)
(*   SpecBox    - Coordinates::getBoundingBox                              *)
(*   SpecComposite - the composite generator                               *)
(***************************************************************************)
EXTENDS Integers, Sequences, FiniteSets, TLC

VARIABLES
    \* ---- Geometry::findClosestElevations
    elevationAngles,      \* Geometry::elevationAngles (vector<float>)
    elevationAngle,       \* the target angle of the call
    elevationIndexLower,  \* out parameters of the call
    elevationAngleLower,
    elevationIndexUpper,
    elevationAngleUpper,
    elevPc,               \* "idle" | "ready" (before the call) | "done"
    \* ---- Coordinates::setBinPosition, called by two threads
    statics,              \* the function's "static double x1, x2, x3"
    coords,               \* thread -> its own Coordinates object
    binArgs,              \* thread -> the (azimuth, range) of its call
    binPc,                \* thread -> statement of setBinPosition it is at
    \* ---- the how-attribute conversions of odim_io_utilities.c
    attributes,           \* the attributes (RaveObjectList_t of RaveAttribute_t)
    origAttributes,       \* the attributes before any conversion
    version,              \* the ODIM version of the file written or read
    howOps,               \* the conversions called so far
    howRet,               \* the value the last conversion returned
    \* ---- getIdFromSource and getNodOrCmtFromSource
    sourceTokens,         \* the KEY:value tokens the source string is made of
    source,               \* the source string
    id,                   \* the key looked for (with its colon)
    buf,                  \* the caller's buffer
    buflen,               \* its size
    sourceResult,         \* the value returned
    sourcePc,             \* "idle" | "ready" | the function that was called
    \* ---- Coordinates::getBoundingBox
    boxCoords,            \* the Coordinates object
    boxCoords0,           \* the object as it was when the call began (history)
    boxRange,             \* the range argument
    boxI,                 \* the loop counter i
    latMin, lonMin,       \* the out-parameters
    latMax, lonMax,
    boxSamples,           \* the (azimuth, lat, lon) sampled so far (history)
    boxPc,                \* "idle" | "ready" | "loop" | "done"
    \* ---- the composite generator
    composite,            \* the generator: its configuration and sources
    compState,            \* "idle" | "Configuring" | "Generating" | "Emitted"
    generation,           \* the area, the raster and the sources picked so far
    emitted,              \* the generations returned so far (history)
    compRet,              \* the outcome of the last call
    volumes,              \* the data of the polar volumes
    \* ---- Geometry::heightFromEtaBeam and Geometry::beamFromEtaH
    geomEta,              \* the elevation eta (a double, in radians)
    geomB,                \* the slant range b (a double, in metres)
    geomH,                \* the value heightFromEtaBeam returned
    geomBeam,             \* the value beamFromEtaH returned
    geomPc,               \* "idle" | "ready" | "height" | "done"
    \* ---- OdimIoUtilities_addQualityFields
    fields,               \* the list of quality fields (NULL or a field)
    nodeNameLen,          \* the length of the node name that fmt and its arguments give
    outVersion,           \* the ODIM version written
    nodelist,             \* the nodes of the HL_NodeList, in the order they were added
    nodelist0,            \* the node list when the call began (history)
    pindex,               \* the loop counter
    fieldsTried,          \* the indices the loop has looked at, in order (history)
    qualityResult,        \* the local result, then the value returned
    qualityPc,            \* "idle" | "ready" | "loop" | "done"
    \* ---- the Python binding of the vertical profile (pyverticalprofile.c)
    natives,              \* the native VerticalProfile_t objects: reference count and binding
    wrappers,             \* the PyVerticalProfile objects: ob_refcnt and vp
    held,                 \* native -> the references the C callers hold (from GetNative)
    pyLast,               \* the last call, its result and the objects before it (history)
    \* ---- the Cartesian composite generator
    cartesian,            \* the generator: its objects, gain and offset
    cartesianState,       \* "idle" | "Configuring" | "Generating" | "Emitted" | "Failed"
    cartesianRaster,      \* pixel -> the raw value written (Unwritten before)
    cartesianPicked,      \* pixel -> the object whose value was copied (history)
    cartesianNext,        \* the pixels still to do
    \* ---- nearest split into bands of pixels, one worker for each band
    parRaster,            \* pixel -> the value written (Unwritten before)
    parWrites,            \* pixel -> the workers that wrote it, in order
    parTodo               \* worker -> the columns of its band still to do

elevVars == <<elevationAngles, elevationAngle, elevationIndexLower,
              elevationAngleLower, elevationIndexUpper, elevationAngleUpper,
              elevPc>>

coordVars == <<statics, coords, binArgs, binPc>>

howVars == <<attributes, origAttributes, version, howOps, howRet>>

sourceVars == <<sourceTokens, source, id, buf, buflen, sourceResult, sourcePc>>

boxVars == <<boxCoords, boxCoords0, boxRange, boxI, latMin, lonMin, latMax, lonMax,
             boxSamples, boxPc>>

compositeVars == <<composite, compState, generation, emitted, compRet,
                   volumes>>

geomVars == <<geomEta, geomB, geomH, geomBeam, geomPc>>

qualityVars == <<fields, nodeNameLen, outVersion, nodelist, nodelist0, pindex, fieldsTried, qualityResult, qualityPc>>

pyVars == <<natives, wrappers, held, pyLast>>

cartesianVars == <<cartesian, cartesianState, cartesianRaster, cartesianPicked, cartesianNext>>

parallelVars == <<parRaster, parWrites, parTodo>>

vars == <<elevVars, coordVars, howVars, sourceVars, boxVars, compositeVars,
    geomVars, qualityVars, pyVars, cartesianVars, parallelVars>>

\* The variables of the other components.
exceptElev == <<coordVars, howVars, sourceVars, boxVars, compositeVars,
    geomVars, qualityVars, pyVars, cartesianVars, parallelVars>>
exceptCoord == <<elevVars, howVars, sourceVars, boxVars, compositeVars,
    geomVars, qualityVars, pyVars, cartesianVars, parallelVars>>
exceptHow == <<elevVars, coordVars, sourceVars, boxVars, compositeVars,
    geomVars, qualityVars, pyVars, cartesianVars, parallelVars>>
exceptSource == <<elevVars, coordVars, howVars, boxVars, compositeVars,
    geomVars, qualityVars, pyVars, cartesianVars, parallelVars>>
exceptBox == <<elevVars, coordVars, howVars, sourceVars, compositeVars,
    geomVars, qualityVars, pyVars, cartesianVars, parallelVars>>
exceptComposite == <<elevVars, coordVars, howVars, sourceVars, boxVars,
    geomVars, qualityVars, pyVars, cartesianVars, parallelVars>>
exceptGeom == <<elevVars, coordVars, howVars, sourceVars, boxVars,
    compositeVars, qualityVars, pyVars, cartesianVars, parallelVars>>
exceptQuality == <<elevVars, coordVars, howVars, sourceVars, boxVars,
    compositeVars, geomVars, pyVars, cartesianVars, parallelVars>>
exceptPy == <<elevVars, coordVars, howVars, sourceVars, boxVars,
    compositeVars, geomVars, qualityVars, cartesianVars, parallelVars>>
exceptCartesian == <<elevVars, coordVars, howVars, sourceVars, boxVars,
    compositeVars, geomVars, qualityVars, pyVars, parallelVars>>
exceptParallel == <<elevVars, coordVars, howVars, sourceVars, boxVars,
    compositeVars, geomVars, qualityVars, pyVars, cartesianVars>>

(***************************************************************************)
(* Geometry::findClosestElevations                                         *)
(*                                                                         *)
(* The function only compares angles, so any order-preserving image of the *)
(* float values is faithful.  Angles are points of an integer grid on      *)
(* which the float value of M_PI/2.0, the value the code stores in the     *)
(* float out-parameters before the scan, is the grid point HalfPiSteps.    *)
(* An elevation of 90 degrees held in a float is that same value.  The     *)
(* grid reaches one step beyond it on both sides.                          *)
(***************************************************************************)
HalfPiSteps == 2
MaxElevations == 3

HALF_PI == HalfPiSteps

Angles == (0 - HalfPiSteps - 1) .. (HalfPiSteps + 1)

\* The elevation lists of a scan set: strictly ascending.
AscendingLists ==
    { s \in UNION { [1..n -> Angles] : n \in 0..MaxElevations } :
        \A i \in 1..Len(s), j \in 1..Len(s) : i < j => s[i] < s[j] }

\* The loop of findClosestElevations from index i on; st holds the four
\* out-parameters.  Indices are the code's, 0-based.
RECURSIVE ScanElevations(_, _, _, _)
ScanElevations(angles, target, i, st) ==
    IF i >= Len(angles) THEN st
    ELSE LET e  == angles[i + 1]
             s1 == IF (e > st.angleLower) /\ (e <= target)
                   THEN [st EXCEPT !.indexLower = i, !.angleLower = e]
                   ELSE st
             s2 == IF (e < s1.angleUpper) /\ (e >= target)
                   THEN [s1 EXCEPT !.indexUpper = i, !.angleUpper = e]
                   ELSE s1
         IN  ScanElevations(angles, target, i + 1, s2)

findClosestElevations(angles, target) ==
    ScanElevations(angles, target, 0,
                   [indexLower |-> -1, angleLower |-> 0 - HALF_PI,
                    indexUpper |-> -1, angleUpper |-> HALF_PI])

ElevIdle ==
    /\ elevationAngles = << >>
    /\ elevationAngle = 0
    /\ elevationIndexLower = -1
    /\ elevationAngleLower = 0
    /\ elevationIndexUpper = -1
    /\ elevationAngleUpper = 0
    /\ elevPc = "idle"

ElevInit ==
    /\ elevationAngles \in AscendingLists
    /\ elevationAngle \in Angles
    /\ elevationIndexLower = -1
    /\ elevationAngleLower = 0
    /\ elevationIndexUpper = -1
    /\ elevationAngleUpper = 0
    /\ elevPc = "ready"

FindClosestElevations ==
    /\ elevPc = "ready"
    /\ LET r == findClosestElevations(elevationAngles, elevationAngle)
       IN  /\ elevationIndexLower' = r.indexLower
           /\ elevationAngleLower' = r.angleLower
           /\ elevationIndexUpper' = r.indexUpper
           /\ elevationAngleUpper' = r.angleUpper
    /\ elevPc' = "done"
    /\ UNCHANGED <<elevationAngles, elevationAngle, exceptElev>>

(***************************************************************************)
(* Coordinates::origin and Coordinates::setBinPosition                     *)
(*                                                                         *)
(* Doubles are fixed-point numbers: angles are whole degrees, lengths are  *)
(* kilometres, and sines, cosines and the components of the unit vectors   *)
(* are scaled by 1000.  The bin position p is in metres (km * 1000).       *)
(***************************************************************************)
EARTH_RADIUS == 6371

SinTable ==
    << 0, 17, 35, 52, 70, 87, 105, 122, 139, 156,
       174, 191, 208, 225, 242, 259, 276, 292, 309, 326,
       342, 358, 375, 391, 407, 423, 438, 454, 469, 485,
       500, 515, 530, 545, 559, 574, 588, 602, 616, 629,
       643, 656, 669, 682, 695, 707, 719, 731, 743, 755,
       766, 777, 788, 799, 809, 819, 829, 839, 848, 857,
       866, 875, 883, 891, 899, 906, 914, 921, 927, 934,
       940, 946, 951, 956, 961, 966, 970, 974, 978, 982,
       985, 988, 990, 993, 995, 996, 998, 999, 999, 1000,
       1000 >>

Abs(n) == IF n < 0 THEN 0 - n ELSE n

\* sin and cos of an angle in whole degrees, scaled by 1000.
Sin(d) ==
    LET a == d % 360
    IN  IF a <= 90 THEN SinTable[a + 1]
        ELSE IF a <= 180 THEN SinTable[180 - a + 1]
        ELSE IF a <= 270 THEN 0 - SinTable[a - 180 + 1]
        ELSE 0 - SinTable[360 - a + 1]

Cos(d) == Sin(d + 90)

\* cos of the small angle r / (2 * EARTH_RADIUS) radians, scaled by 1000:
\* 1 - x^2 / 2, exact to the scale for r up to 1000 km.
CosHalfArc(r) == 1000 - (1000 * r * r) \div (8 * EARTH_RADIUS * EARTH_RADIUS)

\* asin of s / 1000 in whole degrees: the angle in -90..90 whose sine is
\* nearest to s; asin is odd.  AsinFloor is the largest angle in lo..hi
\* whose sine is at most s (the sine of lo is), found by bisection.
RECURSIVE AsinFloor(_, _, _)
AsinFloor(s, lo, hi) ==
    IF lo = hi THEN lo
    ELSE LET mid == (lo + hi + 1) \div 2
         IN  IF Sin(mid) <= s THEN AsinFloor(s, mid, hi)
                              ELSE AsinFloor(s, lo, mid - 1)

AsinNearest(s) ==
    LET d == AsinFloor(s, 0, 90)
    IN  IF d < 90 /\ Abs(Sin(d + 1) - s) < Abs(Sin(d) - s) THEN d + 1 ELSE d

\* The NaN that asin returns for an argument beyond [-1, 1]: a value that is
\* no angle.  Comparisons go through Less, which is false for it.
NaN == 1000

Less(a, b) == a # NaN /\ b # NaN /\ a < b

Asin(s) ==
    IF Abs(s) > 1000 THEN NaN
    ELSE IF s < 0 THEN 0 - AsinNearest(0 - s)
    ELSE AsinNearest(s)

\* atan2(y, x) in whole degrees, in (-180, 180]: the direction nearest to
\* that of (x, y).  Cross(xs, ys, d) has the sign of d minus the direction
\* of (xs, ys); Atan2Floor is the largest direction in lo..hi, a quadrant
\* holding (xs, ys), that is not beyond it, found by bisection.
Cross(xs, ys, d) == xs * Sin(d) - ys * Cos(d)

RECURSIVE Atan2Floor(_, _, _, _)
Atan2Floor(xs, ys, lo, hi) ==
    IF lo = hi THEN lo
    ELSE LET mid == (lo + hi + 1) \div 2
         IN  IF Cross(xs, ys, mid) <= 0 THEN Atan2Floor(xs, ys, mid, hi)
                                        ELSE Atan2Floor(xs, ys, lo, mid - 1)

Atan2(y, x) ==
    LET xs == x \div 1000
        ys == y \div 1000
        lo == IF xs > 0 /\ ys >= 0 THEN 0
              ELSE IF xs <= 0 /\ ys > 0 THEN 90
              ELSE IF xs < 0 /\ ys <= 0 THEN -180
              ELSE -90
        d  == Atan2Floor(xs, ys, lo, lo + 90)
        n  == IF /\ d < lo + 90
                 /\ Abs(Cross(xs, ys, d + 1)) < Abs(Cross(xs, ys, d))
              THEN d + 1 ELSE d
    IN  IF xs = 0 /\ ys = 0 THEN 0
        ELSE IF n = -180 THEN 180 ELSE n

\* Coordinates::origin(theta, phi): the site frame of a new object.
origin(theta, phi) ==
    [ p01 |-> (((EARTH_RADIUS * Cos(phi)) \div 1000) * Cos(theta)) \div 1000,
      p02 |-> (((EARTH_RADIUS * Sin(phi)) \div 1000) * Cos(theta)) \div 1000,
      p03 |-> (EARTH_RADIUS * Sin(theta)) \div 1000,
      e11 |-> 0 - Sin(phi),
      e12 |-> Cos(phi),
      e13 |-> 0,
      e21 |-> (0 - Cos(phi) * Sin(theta)) \div 1000,
      e22 |-> (0 - Sin(phi) * Sin(theta)) \div 1000,
      e23 |-> Cos(theta),
      p1 |-> 0, p2 |-> 0, p3 |-> 0,
      phiBin |-> 0, thetaBin |-> 0 ]

\* The statements of setBinPosition, in order.
SetX1(x, range)   == [x EXCEPT !.x1 = CosHalfArc(range)]
SetX2(x, azimuth, range) == [x EXCEPT !.x2 = range * Sin(azimuth)]
SetX3(x, azimuth, range) == [x EXCEPT !.x3 = range * Cos(azimuth)]
SetP1(c, x) == [c EXCEPT !.p1 = c.p01 * x.x1 + (c.e11 * x.x2) \div 1000
                                             + (c.e21 * x.x3) \div 1000]
SetP2(c, x) == [c EXCEPT !.p2 = c.p02 * x.x1 + (c.e12 * x.x2) \div 1000
                                             + (c.e22 * x.x3) \div 1000]
SetP3(c, x) == [c EXCEPT !.p3 = c.p03 * x.x1 + (c.e13 * x.x2) \div 1000
                                             + (c.e23 * x.x3) \div 1000]
SetPhiBin(c)   == [c EXCEPT !.phiBin = Atan2(c.p2, c.p1)]
SetThetaBin(c) == [c EXCEPT !.thetaBin = Asin(c.p3 \div EARTH_RADIUS)]

\* setBinPosition run by one thread from start to end.
setBinPosition(c, azimuth, range) ==
    LET x == SetX3(SetX2(SetX1([x1 |-> 0, x2 |-> 0, x3 |-> 0], range),
                         azimuth, range), azimuth, range)
    IN  SetThetaBin(SetPhiBin(SetP3(SetP2(SetP1(c, x), x), x)))

Threads == {1, 2}
Sites == { <<60, 15>>, <<0, 0>> }            \* (latitude, longitude)
Azimuths == {0, 90, 200}
Ranges == {0, 300, 1000}

CoordIdle ==
    /\ statics = [x1 |-> 0, x2 |-> 0, x3 |-> 0]
    /\ coords = [t \in Threads |-> origin(0, 0)]
    /\ binArgs = [t \in Threads |-> [azimuth |-> 0, range |-> 0]]
    /\ binPc = [t \in Threads |-> "idle"]

CoordInit ==
    /\ statics = [x1 |-> 0, x2 |-> 0, x3 |-> 0]
    /\ \E s \in Sites : coords = [t \in Threads |-> origin(s[1], s[2])]
    /\ binArgs \in [Threads -> [azimuth : Azimuths, range : Ranges]]
    /\ binPc = [t \in Threads |-> "x1"]

StmtX1(t) ==
    /\ binPc[t] = "x1"
    /\ statics' = SetX1(statics, binArgs[t].range)
    /\ binPc' = [binPc EXCEPT ![t] = "x2"]
    /\ UNCHANGED <<coords, binArgs, exceptCoord>>

StmtX2(t) ==
    /\ binPc[t] = "x2"
    /\ statics' = SetX2(statics, binArgs[t].azimuth, binArgs[t].range)
    /\ binPc' = [binPc EXCEPT ![t] = "x3"]
    /\ UNCHANGED <<coords, binArgs, exceptCoord>>

StmtX3(t) ==
    /\ binPc[t] = "x3"
    /\ statics' = SetX3(statics, binArgs[t].azimuth, binArgs[t].range)
    /\ binPc' = [binPc EXCEPT ![t] = "p1"]
    /\ UNCHANGED <<coords, binArgs, exceptCoord>>

StmtP1(t) ==
    /\ binPc[t] = "p1"
    /\ coords' = [coords EXCEPT ![t] = SetP1(coords[t], statics)]
    /\ binPc' = [binPc EXCEPT ![t] = "p2"]
    /\ UNCHANGED <<statics, binArgs, exceptCoord>>

StmtP2(t) ==
    /\ binPc[t] = "p2"
    /\ coords' = [coords EXCEPT ![t] = SetP2(coords[t], statics)]
    /\ binPc' = [binPc EXCEPT ![t] = "p3"]
    /\ UNCHANGED <<statics, binArgs, exceptCoord>>

StmtP3(t) ==
    /\ binPc[t] = "p3"
    /\ coords' = [coords EXCEPT ![t] = SetP3(coords[t], statics)]
    /\ binPc' = [binPc EXCEPT ![t] = "phi"]
    /\ UNCHANGED <<statics, binArgs, exceptCoord>>

StmtPhiBin(t) ==
    /\ binPc[t] = "phi"
    /\ coords' = [coords EXCEPT ![t] = SetPhiBin(coords[t])]
    /\ binPc' = [binPc EXCEPT ![t] = "theta"]
    /\ UNCHANGED <<statics, binArgs, exceptCoord>>

StmtThetaBin(t) ==
    /\ binPc[t] = "theta"
    /\ coords' = [coords EXCEPT ![t] = SetThetaBin(coords[t])]
    /\ binPc' = [binPc EXCEPT ![t] = "done"]
    /\ UNCHANGED <<statics, binArgs, exceptCoord>>

(***************************************************************************)
(* The how-attribute conversions of odim_io_utilities.c                    *)
(*                                                                         *)
(* A double is a binary floating-point number with a significand of        *)
(* MantBits bits: [m, e] stands for m * 2^e, with m = 0 or                 *)
(* 2^(MantBits-1) <= |m| < 2^MantBits.  Every operation rounds its exact   *)
(* result to the nearest such number, ties to even, as IEEE 754 does; the  *)
(* exponent is unbounded (no overflow, no underflow).  The constants       *)
(* 1000.0, 10.0 and 30.0 of the code are exact doubles and enter the       *)
(* operations as integers.                                                 *)
(***************************************************************************)
MantBits == 5
MaxArrayLen == 2
MaxAttributes == 2

RECURSIVE Pow2(_)
Pow2(n) == IF n <= 0 THEN 1 ELSE 2 * Pow2(n - 1)

MantMin == Pow2(MantBits - 1)
MantMax == Pow2(MantBits)

Zero == [m |-> 0, e |-> 0]
Neg(x) == [m |-> 0 - x.m, e |-> x.e]

\* n > 0, n < MantMax: n * 2^e with the significand scaled up (exact).
RECURSIVE ScaleUp(_, _)
ScaleUp(n, e) ==
    IF n >= MantMin THEN [m |-> n, e |-> e] ELSE ScaleUp(2 * n, e - 1)

\* The number of low bits n >= MantMax has too many.
RECURSIVE DropBits(_)
DropBits(n) == IF n < MantMax THEN 0 ELSE 1 + DropBits(n \div 2)

\* n > 0: n * 2^e rounded to nearest, ties to even.
RoundPos(n, e) ==
    IF n < MantMax THEN ScaleUp(n, e)
    ELSE LET k    == DropBits(n)
             q    == n \div Pow2(k)
             r    == n % Pow2(k)
             half == Pow2(k - 1)
             q1   == IF r > half \/ (r = half /\ q % 2 = 1) THEN q + 1 ELSE q
         IN  IF q1 = MantMax THEN [m |-> MantMin, e |-> e + k + 1]
                             ELSE [m |-> q1, e |-> e + k]

Round(n, e) ==
    IF n = 0 THEN Zero
    ELSE IF n > 0 THEN RoundPos(n, e)
    ELSE Neg(RoundPos(0 - n, e))

Min(a, b) == IF a < b THEN a ELSE b

\* x * k, x / k and x + k for a double x and an integer constant k > 0.
FMulInt(x, k) == Round(x.m * k, x.e)

RECURSIVE QuotientShift(_, _)
QuotientShift(k, s) == IF Pow2(s) >= 4 * k THEN s ELSE QuotientShift(k, s + 1)

\* The quotient is taken with enough bits that its rounding drops some; the
\* lowest bit kept is set when the division left a remainder.
FDivInt(x, k) ==
    LET s == QuotientShift(k, 0)
        a == Abs(x.m) * Pow2(s)
        n == 2 * (a \div k) + (IF a % k = 0 THEN 0 ELSE 1)
    IN  IF x.m = 0 THEN Zero
        ELSE IF x.m > 0 THEN RoundPos(n, x.e - s - 1)
        ELSE Neg(RoundPos(n, x.e - s - 1))

FAddInt(x, k) ==
    LET e == Min(x.e, 0)
    IN  Round(x.m * Pow2(x.e - e) + k * Pow2(0 - e), e)

\* log10 of the integers 1 .. 63, scaled by 2^16.
LogTable ==
    << 0, 19728, 31269, 39457, 45808, 50997, 55384, 59185, 62537,
       65536, 68249, 70725, 73003, 75113, 77076, 78913, 80639, 82266,
       83804, 85264, 86653, 87977, 89242, 90454, 91615, 92732, 93806,
       94841, 95840, 96805, 97738, 98642, 99517, 100367, 101192, 101994,
       102774, 103533, 104272, 104993, 105695, 106381, 107051, 107705, 108345,
       108970, 109583, 110182, 110769, 111344, 111907, 112460, 113002, 113534,
       114056, 114569, 115073, 115568, 116055, 116533, 117003, 117466, 117922 >>

\* log10(m * 2^e) for m > 0, scaled by 2^16; the factors 2 of m go to e.
RECURSIVE LogFix(_, _)
LogFix(m, e) ==
    IF m % 2 = 0 THEN LogFix(m \div 2, e + 1)
    ELSE LogTable[m] + e * LogTable[2]

\* log10(x) for x > 0.
Log10(x) == Round(LogFix(x.m, x.e), -16)

\* pow(10.0, x): the double whose log10 is nearest to x.  ey is the exponent
\* of the largest power of two times MantMin that is at most 10^x, my the
\* largest significand not beyond 10^x.
RECURSIVE PowFloor(_, _, _, _)
PowFloor(xf, ey, lo, hi) ==
    IF lo = hi THEN lo
    ELSE LET mid == (lo + hi + 1) \div 2
         IN  IF LogFix(mid, ey) <= xf THEN PowFloor(xf, ey, mid, hi)
                                      ELSE PowFloor(xf, ey, lo, mid - 1)

Pow10(x) ==
    LET xf == IF x.e >= -16 THEN x.m * Pow2(x.e + 16)
                            ELSE x.m \div Pow2(0 - 16 - x.e)
        ey == (xf - LogFix(MantMin, 0)) \div LogTable[2]
        my == PowFloor(xf, ey, MantMin, MantMax - 1)
        up == IF my + 1 = MantMax THEN [m |-> MantMin, e |-> ey + 1]
                                  ELSE [m |-> my + 1, e |-> ey]
    IN  IF LogFix(up.m, up.e) - xf < xf - LogFix(my, ey)
        THEN up ELSE [m |-> my, e |-> ey]

\* ---- the conversions of the single values

\* how/gasattn: dB/m => dB/km on read, dB/km => dB/m on write.
GasattnToInternal_Mutant(v) == FDivInt(v, 1000)
GasattnToInternal(v)   == FMulInt(v, 1000)
GasattnFromInternal(v) == FDivInt(v, 1000)

\* how/minrange, how/maxrange, how/melting_layer_*: m => km, km => m.
LengthToInternal(v)   == FDivInt(v, 1000)
LengthFromInternal(v) == FMulInt(v, 1000)

\* the powers: dBm => kW on read, pow(10.0, (v - 30.0)/10.0)/1000.0
PowerToInternal(v) == FDivInt(Pow10(FDivInt(FAddInt(v, -30), 10)), 1000)

\* the powers: kW => dBm on write, 10*log10(1000.0*v)+30, for v > 0 only
PowerFromInternal(v) ==
    IF v.m > 0 THEN FAddInt(FMulInt(Log10(FMulInt(v, 1000)), 10), 30) ELSE v

\* ---- attribute names

\* tolower() of the attribute names of the model.
ToLower(s) ==
    CASE s = "HOW/GASATTN"                -> "how/gasattn"
      [] s = "how/MaxRange"               -> "how/maxrange"
      [] s = "how/melting_layer_top_A"    -> "how/melting_layer_top_a"
      [] s = "how/melting_layer_bottom_A" -> "how/melting_layer_bottom_a"
      [] s = "how/nomTXpower"             -> "how/nomtxpower"
      [] s = "how/PeakPwr"                -> "how/peakpwr"
      [] s = "how/TXpower"                -> "how/txpower"
      [] OTHER                            -> s

strcasecmp(a, b) == IF ToLower(a) = ToLower(b) THEN 0 ELSE 1

\* The test of the length names that takes how/wavelength for one of them.
IsLengthName_Mutant(attrname) ==
    \/ strcasecmp("how/minrange", attrname) = 0
    \/ strcasecmp("how/maxrange", attrname) = 0
    \/ strcasecmp("how/melting_layer_top_A", attrname) = 0
    \/ strcasecmp("how/melting_layer_bottom_A", attrname) = 0
    \/ strcasecmp("how/wavelength", attrname) = 0

IsLengthName(attrname) ==
    \/ strcasecmp("how/minrange", attrname) = 0
    \/ strcasecmp("how/maxrange", attrname) = 0
    \/ strcasecmp("how/melting_layer_top_A", attrname) = 0
    \/ strcasecmp("how/melting_layer_bottom_A", attrname) = 0

IsPowerName(attrname) ==
    \/ strcasecmp("how/nomTXpower", attrname) = 0
    \/ strcasecmp("how/peakpwr", attrname) = 0
    \/ strcasecmp("how/avgpwr", attrname) = 0

RaveIO_ODIM_Version_2_4 == 4

\* ---- the conversion functions; an attribute is a record
\*      [name, format, d (double), darr (double array), l (long)]

\* The loop over the elements of a how/TXpower array, from index i on.
RECURSIVE TXpowerToInternal(_, _)
TXpowerToInternal(darr, i) ==
    IF i >= Len(darr) THEN darr
    ELSE TXpowerToInternal(
            [darr EXCEPT ![i + 1] = PowerToInternal(darr[i + 1])], i + 1)

TXpowerFromInternal_Mutant(darr, i) ==
    [k \in 1..Len(darr) |->
        IF k < Len(darr) THEN PowerFromInternal(darr[k]) ELSE darr[k]]

RECURSIVE TXpowerFromInternal(_, _)
TXpowerFromInternal(darr, i) ==
    IF i >= Len(darr) THEN darr
    ELSE TXpowerFromInternal(
            [darr EXCEPT ![i + 1] = PowerFromInternal(darr[i + 1])], i + 1)

ToInternalConvert(attrname, inattr) ==
    IF inattr.format = "Double" THEN
        IF strcasecmp("how/gasattn", attrname) = 0
        THEN [inattr EXCEPT !.d = GasattnToInternal(inattr.d)]
        ELSE IF IsLengthName(attrname)
        THEN [inattr EXCEPT !.d = LengthToInternal(inattr.d)]
        ELSE IF IsPowerName(attrname)
        THEN [inattr EXCEPT !.d = PowerToInternal(inattr.d)]
        ELSE inattr
    ELSE IF inattr.format = "DoubleArray" /\ strcasecmp("how/TXpower", attrname) = 0
    THEN [inattr EXCEPT !.darr = TXpowerToInternal(inattr.darr, 0)]
    ELSE inattr

FromInternalConvert(attrname, inattr) ==
    IF inattr.format = "Double" THEN
        IF strcasecmp("how/gasattn", attrname) = 0
        THEN [inattr EXCEPT !.d = GasattnFromInternal(inattr.d)]
        ELSE IF IsLengthName(attrname)
        THEN [inattr EXCEPT !.d = LengthFromInternal(inattr.d)]
        ELSE IF IsPowerName(attrname)
        THEN [inattr EXCEPT !.d = PowerFromInternal(inattr.d)]
        ELSE inattr
    ELSE IF inattr.format = "DoubleArray" /\ strcasecmp("how/TXpower", attrname) = 0
    THEN [inattr EXCEPT !.darr = TXpowerFromInternal(inattr.darr, 0)]
    ELSE inattr

\* The three interface functions: the attribute(s) after the call.  All of
\* them return 1.
OdimIoUtilities_convertHowAttributeToInternalRave_Mutant(attrname, origversion, inattr) ==
    IF origversion < RaveIO_ODIM_Version_2_4 - 1 THEN inattr
    ELSE ToInternalConvert(attrname, inattr)

OdimIoUtilities_convertHowAttributeToInternalRave(attrname, origversion, inattr) ==
    IF origversion < RaveIO_ODIM_Version_2_4 THEN inattr
    ELSE ToInternalConvert(attrname, inattr)

OdimIoUtilities_convertHowAttributeFromInternalRave(attrname, outversion, inattr) ==
    IF outversion < RaveIO_ODIM_Version_2_4 THEN inattr
    ELSE FromInternalConvert(attrname, inattr)

RECURSIVE ConvertAttributesFrom(_, _, _)
ConvertAttributesFrom(attrs, outversion, i) ==
    IF i >= Len(attrs) THEN attrs
    ELSE ConvertAttributesFrom(
            [attrs EXCEPT ![i + 1] =
                OdimIoUtilities_convertHowAttributeFromInternalRave(
                    attrs[i + 1].name, outversion, attrs[i + 1])],
            outversion, i + 1)

OdimIoUtilities_convertHowAttributesFromInternalRave(attrs, outversion) ==
    IF outversion < RaveIO_ODIM_Version_2_4 THEN attrs
    ELSE ConvertAttributesFrom(attrs, outversion, 0)

\* OdimIoUtilitiesInternal_loadFieldAttribute, called for every attribute of
\* a field that is loaded.
RECURSIVE LoadFieldAttributes(_, _, _)
LoadFieldAttributes(attrs, origversion, i) ==
    IF i >= Len(attrs) THEN attrs
    ELSE LoadFieldAttributes(
            [attrs EXCEPT ![i + 1] =
                OdimIoUtilities_convertHowAttributeToInternalRave(
                    attrs[i + 1].name, origversion, attrs[i + 1])],
            origversion, i + 1)

\* ---- the inputs

\* The doubles m * 2^e with 1/2 <= |m * 2^e| < 4, and 0.
Doubles ==
    {Zero} \cup
    { [m |-> s * m, e |-> x - (MantBits - 1)] :
        s \in {-1, 1}, m \in MantMin..(MantMax - 1), x \in {-1, 0, 1} }

\* The elements of the arrays: -1, 0, 0.75, 1 and 1.5.
ArrayDoubles ==
    { Round(-1, 0), Zero, Round(3, -2), Round(1, 0), Round(3, -1) }

DoubleNames ==
    { "how/gasattn", "HOW/GASATTN", "how/minrange", "how/MaxRange",
      "how/melting_layer_top_A", "how/melting_layer_bottom_A",
      "how/nomTXpower", "how/PeakPwr", "how/avgpwr",
      "how/TXpower", "how/wavelength", "what/gain" }

ArrayNames == { "how/TXpower", "how/txpower", "how/peakpwr", "how/elangles" }

LongNames == { "how/gasattn", "how/peakpwr", "how/scan_count" }

Attribute(n, f, v, a, k) ==
    [name |-> n, format |-> f, d |-> v, darr |-> a, l |-> k]

DoubleArrays == UNION { [1..n -> ArrayDoubles] : n \in 0..MaxArrayLen }

Attributes ==
    { Attribute(n, "Double", v, << >>, 0) : n \in DoubleNames, v \in Doubles }
    \cup { Attribute(n, "DoubleArray", Zero, a, 0) :
             n \in ArrayNames, a \in DoubleArrays }
    \cup { Attribute(n, "Long", Zero, << >>, k) : n \in LongNames, k \in {0, 1000} }

\* The attributes that follow the first one in a list.
MoreAttributes ==
    { Attribute("how/gasattn", "Double", Round(3, -1), << >>, 0),
      Attribute("how/TXpower", "DoubleArray", Zero, << Round(1, 0), Zero >>, 0) }

AttributeLists ==
    { << a >> \o t :
        a \in Attributes,
        t \in UNION { [1..n -> MoreAttributes] : n \in 0..(MaxAttributes - 1) } }

Versions == -1 .. RaveIO_ODIM_Version_2_4

HowIdle ==
    /\ attributes = << >>
    /\ origAttributes = << >>
    /\ version = -1
    /\ howOps = << >>
    /\ howRet = 0

HowInit ==
    /\ attributes \in AttributeLists
    /\ origAttributes = attributes
    /\ version \in Versions
    /\ howOps = << >>
    /\ howRet = 0

\* One attribute is converted for writing.
ConvertHowAttributeFromInternalRave ==
    /\ howOps = << >>
    /\ Len(attributes) = 1
    /\ attributes' = << OdimIoUtilities_convertHowAttributeFromInternalRave(
                            attributes[1].name, version, attributes[1]) >>
    /\ howRet' = 1
    /\ howOps' = << "fromInternal" >>
    /\ UNCHANGED <<origAttributes, version, exceptHow>>

\* The attributes of a field are converted for writing.
ConvertHowAttributesFromInternalRave ==
    /\ howOps = << >>
    /\ attributes' =
          OdimIoUtilities_convertHowAttributesFromInternalRave(attributes, version)
    /\ howRet' = 1
    /\ howOps' = << "fromInternalAll" >>
    /\ UNCHANGED <<origAttributes, version, exceptHow>>

\* The attributes are read: as they are, or after they were written.
ConvertHowAttributeToInternalRave ==
    /\ Len(howOps) <= 1
    /\ howOps # << "toInternal" >>
    /\ attributes' = LoadFieldAttributes(attributes, version, 0)
    /\ howRet' = 1
    /\ howOps' = Append(howOps, "toInternal")
    /\ UNCHANGED <<origAttributes, version, exceptHow>>

(***************************************************************************)
(* OdimIoUtilities_getIdFromSource and                                     *)
(* OdimIoUtilities_getNodOrCmtFromSource                                   *)
(*                                                                         *)
(* A C string is the sequence of its characters (without the terminating   *)
(* NUL); a position in it is the 1-based index of a character, 0 is NULL.  *)
(* The caller's buffer is [bytes, overflow]: its buflen bytes, and whether *)
(* a byte was stored beyond them.                                          *)
(* The calls modelled pass a source and an id that are not NULL.           *)
(***************************************************************************)
MaxTokens == 2
MaxBufLen == 6
LargeBufLen == 24

NUL == "\\0"
Unset == "?"

\* strstr(haystack, needle): the position of the first occurrence, or 0.
RECURSIVE StrStrFrom(_, _, _)
StrStrFrom(haystack, needle, i) ==
    IF i + Len(needle) - 1 > Len(haystack) THEN 0
    ELSE IF SubSeq(haystack, i, i + Len(needle) - 1) = needle THEN i
    ELSE StrStrFrom(haystack, needle, i + 1)

strstr(haystack, needle) == StrStrFrom(haystack, needle, 1)

\* strpbrk(p, ","): the position of the first comma at or after p, or 0.
RECURSIVE strpbrk(_, _)
strpbrk(s, p) ==
    IF p > Len(s) THEN 0
    ELSE IF s[p] = "," THEN p
    ELSE strpbrk(s, p + 1)

\* buf[i] = c for the code's 0-based index i.
Store(b, i, c) ==
    IF i < Len(b.bytes) THEN [b EXCEPT !.bytes[i + 1] = c]
    ELSE [b EXCEPT !.overflow = TRUE]

\* strncpy(buf, p, len) where the string at p has at least len characters:
\* the characters from index i on.
RECURSIVE strncpy(_, _, _, _, _)
strncpy(b, s, p, len, i) ==
    IF i >= len THEN b
    ELSE strncpy(Store(b, i, s[p + i]), s, p, len, i + 1)

\* The function with the size test off by one the unsafe way (len <= buflen).
OdimIoUtilities_getIdFromSource_Mutant(src, key, b, len_buf) ==
    LET found == strstr(src, key)
        p     == found + Len(key)
        pbrk  == strpbrk(src, p)
        len   == IF pbrk # 0 THEN pbrk - p ELSE Len(src) - p + 1
    IN  IF found # 0 /\ len < len_buf + 1
        THEN [result |-> 1,
              buf |-> Store(strncpy(b, src, p, len, 0), len, NUL)]
        ELSE [result |-> 0, buf |-> b]

\* The call's result and the buffer after it.
OdimIoUtilities_getIdFromSource(src, key, b, len_buf) ==
    LET found == strstr(src, key)
        p     == found + Len(key)
        pbrk  == strpbrk(src, p)
        len   == IF pbrk # 0 THEN pbrk - p ELSE Len(src) - p + 1
    IN  IF found # 0 /\ len + 1 < len_buf
        THEN [result |-> 1,
              buf |-> Store(strncpy(b, src, p, len, 0), len, NUL)]
        ELSE [result |-> 0, buf |-> b]

NOD == << "N", "O", "D", ":" >>
CMT == << "C", "M", "T", ":" >>
WMO == << "W", "M", "O", ":" >>
PLC == << "P", "L", "C", ":" >>

OdimIoUtilities_getNodOrCmtFromSource(src, b, len_buf) ==
    LET nod == OdimIoUtilities_getIdFromSource(src, NOD, b, len_buf)
    IN  IF nod.result = 0
        THEN OdimIoUtilities_getIdFromSource(src, CMT, nod.buf, len_buf)
        ELSE nod

\* ---- the inputs: source strings of comma-separated KEY:value tokens

SourceTokens ==
    { NOD \o << "a", "b", "c" >>,       \* NOD:abc
      NOD \o << "b" >>,                 \* NOD:b
      CMT \o << "c" >>,                 \* CMT:c
      CMT \o NOD \o << "d" >>,          \* CMT:NOD:d, a comment that holds "NOD:"
      WMO \o << "a" >>,                 \* WMO:a
      WMO }                             \* WMO: with an empty value

RECURSIVE Join(_)
Join(tokens) ==
    IF tokens = << >> THEN << >>
    ELSE IF Len(tokens) = 1 THEN tokens[1]
    ELSE tokens[1] \o << "," >> \o Join(Tail(tokens))

TokenLists == UNION { [1..n -> SourceTokens] : n \in 0..MaxTokens }

Ids == { NOD, CMT, WMO, PLC }

BufLens == (0..MaxBufLen) \cup {LargeBufLen}

SourceIdle ==
    /\ sourceTokens = << >>
    /\ source = << >>
    /\ id = << >>
    /\ buflen = 0
    /\ buf = [bytes |-> << >>, overflow |-> FALSE]
    /\ sourceResult = 0
    /\ sourcePc = "idle"

SourceInit ==
    /\ sourceTokens \in TokenLists
    /\ source = Join(sourceTokens)
    /\ id \in Ids
    /\ buflen \in BufLens
    /\ buf = [bytes |-> [i \in 1..buflen |-> Unset], overflow |-> FALSE]
    /\ sourceResult = 0
    /\ sourcePc = "ready"

GetIdFromSource ==
    /\ sourcePc = "ready"
    /\ LET r == OdimIoUtilities_getIdFromSource(source, id, buf, buflen)
       IN  /\ sourceResult' = r.result
           /\ buf' = r.buf
    /\ sourcePc' = "getIdFromSource"
    /\ UNCHANGED <<sourceTokens, source, id, buflen, exceptSource>>

GetNodOrCmtFromSource ==
    /\ sourcePc = "ready"
    /\ LET r == OdimIoUtilities_getNodOrCmtFromSource(source, buf, buflen)
       IN  /\ sourceResult' = r.result
           /\ buf' = r.buf
    /\ sourcePc' = "getNodOrCmtFromSource"
    /\ UNCHANGED <<sourceTokens, source, id, buflen, exceptSource>>

(***************************************************************************)
(* Coordinates::getBoundingBox                                             *)
(*                                                                         *)
(* The same fixed-point doubles as for setBinPosition.  Angles are whole   *)
(* degrees, so the azimuth i * M_PI / 180.0 is i, and binLatitudeDeg and   *)
(* binLongitudeDeg read thetaBin and phiBin as they are.                   *)
(***************************************************************************)
binLatitudeDeg(c)  == c.thetaBin
binLongitudeDeg(c) == c.phiBin

\* std::min(a, b) and std::max(a, b) of <algorithm>.
StdMin(a, b) == IF Less(b, a) THEN b ELSE a
StdMax(a, b) == IF Less(a, b) THEN b ELSE a

BoxSites == Sites \cup { <<85, 0>>, <<0 - 85, 0>> }
BoxRanges == {100, 400}

\* The bin positions set before the call: (azimuth, range).
BoxPositionsBefore == { <<0, 0>>, <<90, 100>> }

BoxIdle ==
    /\ boxCoords = origin(0, 0)
    /\ boxCoords0 = origin(0, 0)
    /\ boxRange = 0
    /\ boxI = 0
    /\ latMin = 0 /\ lonMin = 0 /\ latMax = 0 /\ lonMax = 0
    /\ boxSamples = << >>
    /\ boxPc = "idle"

BoxInit ==
    /\ \E s \in BoxSites, b \in BoxPositionsBefore :
          boxCoords = setBinPosition(origin(s[1], s[2]), b[1], b[2])
    /\ boxCoords0 = boxCoords
    /\ boxRange \in BoxRanges
    /\ boxI = 0
    /\ latMin = 0 /\ lonMin = 0 /\ latMax = 0 /\ lonMax = 0
    /\ boxSamples = << >>
    /\ boxPc = "ready"

\* Lines 130-138: the call for the site, and the initial bounds.
GetBoundingBoxEnter ==
    /\ boxPc = "ready"
    /\ boxCoords' = setBinPosition(boxCoords, 0, 0)
    /\ latMin' = 360
    /\ lonMin' = 360
    /\ latMax' = 0 - 360
    /\ lonMax' = 0 - 360
    /\ boxI' = 0
    /\ boxPc' = "loop"
    /\ UNCHANGED <<boxCoords0, boxRange, boxSamples, exceptBox>>

\* Lines 140-153: one pass of the loop.
GetBoundingBoxSample ==
    /\ boxPc = "loop"
    /\ boxI < 360
    /\ LET c   == setBinPosition(boxCoords, boxI, boxRange)
           lat == binLatitudeDeg(c)
           lon == binLongitudeDeg(c)
       IN  /\ boxCoords' = c
           /\ latMin' = StdMin(lat, latMin)
           /\ latMax' = StdMax(lat, latMax)
           /\ lonMin' = StdMin(lon, lonMin)
           /\ lonMax' = StdMax(lon, lonMax)
           /\ boxSamples' = Append(boxSamples, <<boxI, lat, lon>>)
    /\ boxI' = boxI + 20
    /\ UNCHANGED <<boxCoords0, boxRange, boxPc, exceptBox>>

\* The return that puts back the bin position of before the call.
GetBoundingBoxReturn_Mutant ==
    /\ boxPc = "loop"
    /\ boxI >= 360
    /\ boxPc' = "done"
    /\ boxCoords' = boxCoords0
    /\ UNCHANGED <<boxCoords0, boxRange, boxI, latMin, lonMin, latMax, lonMax,
                   boxSamples, exceptBox>>

\* The loop ends and the function returns.
GetBoundingBoxReturn ==
    /\ boxPc = "loop"
    /\ boxI >= 360
    /\ boxPc' = "done"
    /\ UNCHANGED <<boxCoords, boxCoords0, boxRange, boxI, latMin, lonMin,
                   latMax, lonMax, boxSamples, exceptBox>>

(***************************************************************************)
(* The composite generator (Composite_t of composite.h)                    *)
(*                                                                         *)
(* The implementation of the generator is not among the sources; the       *)
(* declarations and their documentation (composite.h) are.  The operations *)
(* are modelled from the declarations, the per-pixel rules from the        *)
(* design of the generator, and the PMAX range rule from the               *)
(* documentation of Composite_setRange.                                    *)
(*                                                                         *)
(* The world is a line: a position is a number of kilometres, a site and   *)
(* a pixel are positions.  Elevation angles are tenths of a degree,        *)
(* heights are metres, ranges and ground distances kilometres.  The        *)
(* raster holds the sampled values as they are (gain 1, offset 0).         *)
(***************************************************************************)
MaxSources == 2
MaxNearestCalls == 2

EARTH_RADIUS_43 == 8495    \* 4/3 of the earth radius, km
MetresPerKmTenth == 1745   \* height gained per km by 0.1 degree, in mm
BeamWidth == 10            \* the beam width, tenths of a degree
NODATA == 255

\* The altitude of the beam of elevation e at ground distance g: the rise
\* of the beam and the curvature of the (4/3) earth.
BeamHeight(e, g) ==
    (e * g * MetresPerKmTenth) \div 1000 + (g * g * 1000) \div (2 * EARTH_RADIUS_43)

\* The vertical extent of a scan's beam at ground distance g.
VerticalExtent(g) == (BeamWidth * g * MetresPerKmTenth) \div 1000

\* ---- the polar volumes that can be added

VolumeIds == {"A", "B", "C"}

\* The quality fields of a scan are indexed by their how/task attribute; a
\* field is given by the value of its bin 0 (see SampleQuality).
NoFields == [t \in {} |-> 0]
PolarVolumes ==
    [ A |-> [site |-> 0,   elevs |-> <<5, 10>>,     vals |-> <<7, 3>>,
             rangeScale |-> 2, nbins |-> 125,
             quality |-> << ("ropo" :> 10) @@ ("beamb" :> 20),
                            ("ropo" :> 30) >>],
      B |-> [site |-> 400, elevs |-> <<5, 10>>,     vals |-> <<2, 9>>,
             rangeScale |-> 2, nbins |-> 125,
             quality |-> << ("beamb" :> 40), NoFields >>],
      C |-> [site |-> 130, elevs |-> <<5, 10, 15>>, vals |-> <<4, 8, 6>>,
             rangeScale |-> 1, nbins |-> 100,
             quality |-> << ("ropo" :> 50) @@ ("beamb" :> 60),
                            ("ropo" :> 70), NoFields >>] ]

Scans(v) == 1..Len(volumes[v].elevs)

GroundDistance(v, x) == Abs(volumes[v].site - x)

\* The value of the bin of scan i of volume v above the pixel x: the bin
\* index is floor(range / rangeScale); an index beyond nbins is no data.
SampleScan(v, i, x) ==
    LET bin == GroundDistance(v, x) \div volumes[v].rangeScale
    IN  IF bin < volumes[v].nbins THEN volumes[v].vals[i] ELSE NODATA

ScanHeight(v, i, x) == BeamHeight(volumes[v].elevs[i], GroundDistance(v, x))

SetMin(S) == CHOOSE m \in S : \A n \in S : m <= n
SetMax(S) == CHOOSE m \in S : \A n \in S : m >= n

\* ---- the product rules: the scan to sample (0: none) and the value

\* PPI: the scan of the elevation nearest to the generator's angle.
PpiScan(v, angle) ==
    LET d(i) == Abs(volumes[v].elevs[i] - angle)
    IN  SetMin({ i \in Scans(v) : \A j \in Scans(v) : d(i) <= d(j) })

ScansBelow(v, x, h) == { i \in Scans(v) : ScanHeight(v, i, x) <= h }
ScansAbove(v, x, h) == { i \in Scans(v) : ScanHeight(v, i, x) >= h }

Brackets(v, x, h) == ScansBelow(v, x, h) # {} /\ ScansAbove(v, x, h) # {}

\* With a bracketing pair: the one of the two whose height is closest to h.
BracketScan(v, x, h) ==
    LET lower == SetMax(ScansBelow(v, x, h))
        upper == SetMin(ScansAbove(v, x, h))
    IN  IF h - ScanHeight(v, lower, x) <= ScanHeight(v, upper, x) - h
        THEN lower ELSE upper

\* CAPPI that uses the nearest scan whatever its altitude.
CappiScan_Mutant(v, x, h) ==
    IF Brackets(v, x, h) THEN BracketScan(v, x, h)
    ELSE IF ScansBelow(v, x, h) = {} THEN 1 ELSE Len(volumes[v].elevs)

\* CAPPI without a bracketing pair: the nearest scan if its altitude differs
\* from h by at most half the scan's vertical extent, else none.
CappiScan(v, x, h) ==
    IF Brackets(v, x, h) THEN BracketScan(v, x, h)
    ELSE LET nearest == IF ScansBelow(v, x, h) = {} THEN 1
                        ELSE Len(volumes[v].elevs)
         IN  IF 2 * Abs(ScanHeight(v, nearest, x) - h)
                   <= VerticalExtent(GroundDistance(v, x))
             THEN nearest ELSE 0

\* PCAPPI with the fallback to the highest elevation.
PcappiScan_Mutant(v, x, h) ==
    IF Brackets(v, x, h) THEN BracketScan(v, x, h)
    ELSE Len(volumes[v].elevs)

\* PCAPPI: as CAPPI, but the lowest elevation without a bracketing pair.
PcappiScan(v, x, h) ==
    IF Brackets(v, x, h) THEN BracketScan(v, x, h)
    ELSE 1

ScanValue(v, i, x) == IF i = 0 THEN NODATA ELSE SampleScan(v, i, x)

\* The vertical maximum over all elevations above the pixel.
VerticalMax(v, x) ==
    LET vs == { SampleScan(v, i, x) : i \in Scans(v) } \ {NODATA}
    IN  IF vs = {} THEN NODATA ELSE SetMax(vs)

\* PMAX with the range rule the other way round.
PmaxValue_Mutant(c, v, x) ==
    IF GroundDistance(v, x) > c.range
    THEN VerticalMax(v, x)
    ELSE ScanValue(v, PcappiScan(v, x, c.height), x)

\* PMAX (Composite_setRange): the range is the limit for when the vertical
\* maximum is used; outside this range the PCAPPI value is used instead.
PmaxValue(c, v, x) ==
    IF GroundDistance(v, x) > c.range
    THEN ScanValue(v, PcappiScan(v, x, c.height), x)
    ELSE VerticalMax(v, x)

ProductValue(c, v, x) ==
    CASE c.product = "PPI"    -> ScanValue(v, PpiScan(v, c.elevationAngle), x)
      [] c.product = "CAPPI"  -> ScanValue(v, CappiScan(v, x, c.height), x)
      [] c.product = "PCAPPI" -> ScanValue(v, PcappiScan(v, x, c.height), x)
      [] c.product = "PMAX"   -> PmaxValue(c, v, x)

\* ---- the selection of the source of a pixel

\* NEAREST: the distance of the site; HEIGHT: the lowest altitude of a
\* beam of the source above the pixel.
SelectionKey(c, v, x) ==
    IF c.selectionMethod = "NEAREST" THEN GroundDistance(v, x)
    ELSE SetMin({ ScanHeight(v, i, x) : i \in Scans(v) })

\* The selection that takes the last added of the best sources.
SelectSource_Mutant(c, x) ==
    LET key(k) == SelectionKey(c, c.sources[k], x)
        best == { k \in 1..Len(c.sources) :
                    \A j \in 1..Len(c.sources) : key(k) <= key(j) }
    IN  SetMax(best)

\* The position in the list of sources of the source selected for x: the
\* best one, and of several equally good ones the one added first.
SelectSource(c, x) ==
    LET key(k) == SelectionKey(c, c.sources[k], x)
        best == { k \in 1..Len(c.sources) :
                    \A j \in 1..Len(c.sources) : key(k) <= key(j) }
    IN  SetMin(best)

\* ---- the quality fields

QualityFlags == <<"ropo", "beamb">>

\* The bin of a scan of volume v above the pixel x.
BinIndex(v, x) == GroundDistance(v, x) \div volumes[v].rangeScale

\* The scan with the vertical maximum (0: no scan has a value).
VerticalMaxScan(v, x) ==
    LET vs == { SampleScan(v, i, x) : i \in Scans(v) } \ {NODATA}
    IN  IF vs = {} THEN 0
        ELSE SetMin({ i \in Scans(v) : SampleScan(v, i, x) = SetMax(vs) })

\* The scan that supplies the value of the product (0: none).
ProductScan(c, v, x) ==
    CASE c.product = "PPI"    -> PpiScan(v, c.elevationAngle)
      [] c.product = "CAPPI"  -> CappiScan(v, x, c.height)
      [] c.product = "PCAPPI" -> PcappiScan(v, x, c.height)
      [] c.product = "PMAX"   -> IF GroundDistance(v, x) > c.range
                                 THEN PcappiScan(v, x, c.height)
                                 ELSE VerticalMaxScan(v, x)

\* The value at a bin of the quality field of scan i of volume v whose
\* how/task is task; no scan, no such field and a bin beyond nbins are
\* no data.
SampleQuality(v, i, bin, task) ==
    IF i = 0 THEN NODATA
    ELSE IF bin >= volumes[v].nbins THEN NODATA
    ELSE IF task \notin DOMAIN volumes[v].quality[i] THEN NODATA
    ELSE (volumes[v].quality[i][task] + bin) % NODATA

\* The quality of a pixel taken from the source added first.
PixelQuality_Mutant(c, x) ==
    LET v == c.sources[1]
        i == ProductScan(c, v, x)
    IN  [k \in 1..Len(c.qualityflags) |->
            SampleQuality(v, i, BinIndex(v, x), c.qualityflags[k])]

\* The quality of a pixel, one value for each requested how/task: the
\* same bin of the scan of the source that the value is sampled from.
PixelQuality(c, x) ==
    LET v == c.sources[SelectSource(c, x)]
        i == ProductScan(c, v, x)
    IN  [k \in 1..Len(c.qualityflags) |->
            SampleQuality(v, i, BinIndex(v, x), c.qualityflags[k])]

\* The pixel value with a cache that a first generation leaves behind.
PixelValue_Mutant(c, x) ==
    IF emitted # << >> THEN NODATA
    ELSE ProductValue(c, c.sources[SelectSource(c, x)], x)

PixelValue(c, x) == ProductValue(c, c.sources[SelectSource(c, x)], x)

\* ---- the configuration

Products == {"PPI", "CAPPI", "PCAPPI", "PMAX"}
SelectionMethods == {"NEAREST", "HEIGHT"}
Heights == {1000, 10000}
ElevationAngles == {5, 10}
PmaxRanges == {60}
Quantities == {"DBZH"}
CompositeAreas == { <<50, 80, 200>>, <<200, 80>> }

\* What the product needs: PPI the elevation angle; CAPPI, PCAPPI and PMAX
\* the height; PMAX also the range.
Required(product) ==
    CASE product = "PPI"    -> {"elevationAngle"}
      [] product = "CAPPI"  -> {"height"}
      [] product = "PCAPPI" -> {"height"}
      [] product = "PMAX"   -> {"height", "range"}

\* The check without that of the parameters.
ValidConfig_Mutant(c) ==
    /\ c.sources # << >>
    /\ Required(c.product) \subseteq c.isset

ValidConfig(c) ==
    /\ c.sources # << >>
    /\ c.parameters # << >>
    /\ Required(c.product) \subseteq c.isset

\* ---- the generator and its operations

NewComposite(product) ==
    [ product |-> product, selectionMethod |-> "NEAREST",
      height |-> 0, elevationAngle |-> 0, range |-> 0, isset |-> {},
      parameters |-> << >>, sources |-> << >>,
      qualityflags |-> QualityFlags ]

\* A generation: the area, the configuration it started with, the pixel
\* values written, the positions of the sources selected for them, the
\* scans and the bins sampled, and the quality values written.
NoGeneration ==
    [area |-> << >>, config |-> NewComposite("PCAPPI"), raster |-> << >>,
     picks |-> << >>, scans |-> << >>, bins |-> << >>, quality |-> << >>]

CompositeIdle ==
    /\ composite = NewComposite("PCAPPI")
    /\ compState = "idle"
    /\ generation = NoGeneration
    /\ emitted = << >>
    /\ compRet = "none"
    /\ volumes = PolarVolumes

CompositeInit ==
    /\ \E p \in Products : composite = NewComposite(p)
    /\ compState = "Configuring"
    /\ generation = NoGeneration
    /\ emitted = << >>
    /\ compRet = "none"
    /\ volumes = PolarVolumes

\* The call rejected during a generation only.
Configure_Mutant(new) ==
    /\ IF compState # "Generating"
       THEN composite' = new /\ compRet' = "ok"
       ELSE composite' = composite /\ compRet' = "rejected"
    /\ UNCHANGED <<compState, generation, emitted, volumes, exceptComposite>>

\* add and set_* are legal only in state Configuring: the call changes the
\* generator there and is rejected elsewhere.
Configure(new) ==
    /\ IF compState = "Configuring"
       THEN composite' = new /\ compRet' = "ok"
       ELSE composite' = composite /\ compRet' = "rejected"
    /\ UNCHANGED <<compState, generation, emitted, volumes, exceptComposite>>

\* (The volumes added are different volumes, MaxSources of them at most.)
Composite_add ==
    \E v \in VolumeIds :
        /\ compState = "Configuring" =>
              /\ Len(composite.sources) < MaxSources
              /\ \A k \in 1..Len(composite.sources) : composite.sources[k] # v
        /\ Configure([composite EXCEPT !.sources = Append(@, v)])

Composite_setProduct ==
    \E p \in Products : Configure([composite EXCEPT !.product = p])

Composite_setSelectionMethod ==
    \E m \in SelectionMethods :
        Configure([composite EXCEPT !.selectionMethod = m])

Composite_setHeight ==
    \E h \in Heights :
        Configure([composite EXCEPT !.height = h,
                                    !.isset = @ \cup {"height"}])

Composite_setElevationAngle ==
    \E a \in ElevationAngles :
        Configure([composite EXCEPT !.elevationAngle = a,
                                    !.isset = @ \cup {"elevationAngle"}])

Composite_setRange ==
    \E r \in PmaxRanges :
        Configure([composite EXCEPT !.range = r,
                                    !.isset = @ \cup {"range"}])

Composite_addParameter ==
    \E q \in Quantities :
        /\ compState = "Configuring" =>
              \A k \in 1..Len(composite.parameters) : composite.parameters[k] # q
        /\ Configure([composite EXCEPT !.parameters = Append(@, q)])

\* Composite_nearest, its start: a configuration error fails the call
\* before any pixel is written; otherwise the generation begins.
Composite_nearest_Begin ==
    \E area \in CompositeAreas :
        /\ compState \in {"Configuring", "Emitted"}
        /\ Len(emitted) < MaxNearestCalls
        /\ IF ValidConfig(composite)
           THEN /\ compState' = "Generating"
                /\ generation' = [area |-> area, config |-> composite,
                                  raster |-> << >>, picks |-> << >>,
                                  scans |-> << >>, bins |-> << >>,
                                  quality |-> << >>]
                /\ compRet' = "generating"
           ELSE /\ compRet' = "InvalidConfig"
                /\ UNCHANGED <<compState, generation>>
        /\ UNCHANGED <<composite, emitted, volumes, exceptComposite>>

\* Composite_nearest, one pixel: select the source, sample it, write the
\* value, then sample and write the quality.
Composite_nearest_Pixel ==
    /\ compState = "Generating"
    /\ Len(generation.raster) < Len(generation.area)
    /\ LET x == generation.area[Len(generation.raster) + 1]
           k == SelectSource(composite, x)
           v == composite.sources[k]
       IN  generation' =
             [generation EXCEPT
                !.raster  = Append(@, PixelValue(composite, x)),
                !.picks   = Append(@, k),
                !.scans   = Append(@, ProductScan(composite, v, x)),
                !.bins    = Append(@, BinIndex(v, x)),
                !.quality = Append(@, PixelQuality(composite, x))]
    /\ UNCHANGED <<composite, compState, emitted, compRet, volumes,
                   exceptComposite>>

\* Composite_nearest, its end: the raster is returned.
Composite_nearest_Return ==
    /\ compState = "Generating"
    /\ Len(generation.raster) = Len(generation.area)
    /\ compState' = "Emitted"
    /\ emitted' = Append(emitted, generation)
    /\ compRet' = "raster"
    /\ UNCHANGED <<composite, generation, volumes, exceptComposite>>

(***************************************************************************)
(* Geometry::heightFromEtaBeam and Geometry::beamFromEtaH                  *)
(*                                                                         *)
(* The two functions are floating-point formulas, and what is asked of     *)
(* them is an accuracy of one metre on ranges of up to 250 km measured     *)
(* against an Earth radius of 8495 km, so the arithmetic is modelled at     *)
(* full precision.  A number is a sign and a magnitude; the magnitude is a *)
(* natural number of units of 2^-(15 FracLimbs), held as a sequence of     *)
(* limbs of 15 bits, least significant first, without leading zero limbs.  *)
(* Every operation of the code on doubles is the exact operation followed  *)
(* by a rounding to 53 significant bits, and a float parameter or a float  *)
(* product is rounded to 24 significant bits, as IEEE 754 does.  sqrt, sin, *)
(* cos and asin are computed to the fixed-point precision and rounded to a *)
(* double.                                                                 *)
(*                                                                         *)
(* TLC evaluates the arguments of an operator when they are first used:    *)
(* the recursions below ask for Evaluated(v) before they recurse so that   *)
(* the evaluation does not nest one level per iteration.                   *)
(***************************************************************************)
FracLimbs == 4

LimbBase == Pow2(15)
RECURSIVE IntBits(_)
IntBits(n) == IF n = 0 THEN 0 ELSE 1 + IntBits(n \div 2)
LimbBits == IntBits(LimbBase - 1)

Evaluated(v) == v = v

\* ---- natural numbers of any size
NatTrim(x) == IF x = <<>> THEN x
              ELSE LET top == CHOOSE k \in 0..Len(x) :
                                 /\ \A j \in (k+1)..Len(x) : x[j] = 0
                                 /\ (k = 0 \/ x[k] # 0)
                   IN SubSeq(x, 1, top)
NatLimb(x, i) == IF i <= Len(x) THEN x[i] ELSE 0
NatFromInt(n) == NatTrim(<<n % LimbBase, (n \div LimbBase) % LimbBase,
                           n \div (LimbBase * LimbBase)>>)

RECURSIVE NatAddFrom(_, _, _, _)
NatAddFrom(x, y, i, carry) ==
    IF i > Len(x) /\ i > Len(y)
    THEN IF carry = 0 THEN <<>> ELSE <<carry>>
    ELSE LET s == NatLimb(x, i) + NatLimb(y, i) + carry
         IN <<s % LimbBase>> \o NatAddFrom(x, y, i + 1, s \div LimbBase)
NatAdd(x, y) == NatAddFrom(x, y, 1, 0)

\* x - y for x >= y
RECURSIVE NatSubFrom(_, _, _, _)
NatSubFrom(x, y, i, borrow) ==
    IF i > Len(x) THEN <<>>
    ELSE LET s == NatLimb(x, i) - NatLimb(y, i) - borrow
         IN IF s < 0 THEN <<s + LimbBase>> \o NatSubFrom(x, y, i + 1, 1)
                     ELSE <<s>> \o NatSubFrom(x, y, i + 1, 0)
NatSub(x, y) == NatTrim(NatSubFrom(x, y, 1, 0))

RECURSIVE NatLessFrom(_, _, _)
NatLessFrom(x, y, i) ==
    IF i = 0 THEN FALSE
    ELSE IF x[i] # y[i] THEN x[i] < y[i]
    ELSE NatLessFrom(x, y, i - 1)
NatLess(x, y) == IF Len(x) # Len(y) THEN Len(x) < Len(y)
                 ELSE NatLessFrom(x, y, Len(x))

\* x * d and x \div d for a d of one limb
RECURSIVE NatMulLimbFrom(_, _, _, _)
NatMulLimbFrom(x, d, i, carry) ==
    IF i > Len(x) THEN IF carry = 0 THEN <<>> ELSE <<carry>>
    ELSE LET s == x[i] * d + carry
         IN <<s % LimbBase>> \o NatMulLimbFrom(x, d, i + 1, s \div LimbBase)
NatMulLimb(x, d) == IF d = 0 THEN <<>> ELSE NatMulLimbFrom(x, d, 1, 0)

RECURSIVE NatDivLimbFrom(_, _, _, _)
NatDivLimbFrom(x, d, i, rem) ==
    IF i = 0 THEN <<>>
    ELSE LET s == rem * LimbBase + x[i]
         IN NatDivLimbFrom(x, d, i - 1, s % d) \o <<s \div d>>
NatDivLimb(x, d) == NatTrim(NatDivLimbFrom(x, d, Len(x), 0))

RECURSIVE NatMulFrom(_, _, _)
NatMulFrom(x, y, i) ==
    IF i > Len(y) THEN <<>>
    ELSE LET rest == NatMulFrom(x, y, i + 1)
         IN NatAdd(NatMulLimb(x, y[i]),
                   IF rest = <<>> THEN rest ELSE <<0>> \o rest)
NatMul(x, y) == IF x = <<>> THEN <<>> ELSE NatMulFrom(x, y, 1)

\* x \div d by long division; a limb of the quotient is found bit by bit
RECURSIVE NatQuotientLimb(_, _, _, _)
NatQuotientLimb(rem, d, q, bit) ==
    IF bit = 0 THEN q
    ELSE IF NatLess(rem, NatMulLimb(d, q + bit))
         THEN NatQuotientLimb(rem, d, q, bit \div 2)
         ELSE NatQuotientLimb(rem, d, q + bit, bit \div 2)
RECURSIVE NatDivFrom(_, _, _, _)
NatDivFrom(x, d, i, rem) ==
    IF i = 0 THEN <<>>
    ELSE LET r    == NatTrim(<<x[i]>> \o rem)
             q    == NatQuotientLimb(r, d, 0, LimbBase \div 2)
             left == NatSub(r, NatMulLimb(d, q))
         IN IF Evaluated(left)
            THEN NatDivFrom(x, d, i - 1, left) \o <<q>>
            ELSE <<>>
NatDiv(x, d) == NatTrim(NatDivFrom(x, d, Len(x), <<>>))

NatShiftLimbs(x, k) == IF x = <<>> THEN x ELSE [i \in 1..k |-> 0] \o x
NatDropLimbs(x, k) == IF Len(x) <= k THEN <<>> ELSE SubSeq(x, k + 1, Len(x))
NatBits(x) == IF x = <<>> THEN 0
              ELSE LimbBits * (Len(x) - 1) + IntBits(x[Len(x)])
NatShiftRight(x, k) ==
    NatDivLimb(NatDropLimbs(x, k \div LimbBits), Pow2(k % LimbBits))
NatShiftLeft(x, k) ==
    NatShiftLimbs(NatMulLimb(x, Pow2(k % LimbBits)), k \div LimbBits)
NatOdd(x) == x # <<>> /\ x[1] % 2 = 1

\* the integer square root, by Newton's iteration from above
RECURSIVE NatSqrtFrom(_, _)
NatSqrtFrom(n, y) ==
    LET next == NatDivLimb(NatAdd(y, NatDiv(n, y)), 2)
    IN IF NatLess(next, y) THEN NatSqrtFrom(n, next) ELSE y
NatSqrt(n) ==
    IF n = <<>> THEN n
    ELSE NatSqrtFrom(n, NatShiftLeft(<<1>>, (NatBits(n) + 1) \div 2))

\* ---- signed fixed-point numbers
Fx(neg, mag) == [neg |-> neg /\ mag # <<>>, mag |-> mag]
FxInt(n) == Fx(n < 0, NatShiftLimbs(NatFromInt(IF n < 0 THEN 0 - n ELSE n),
                                    FracLimbs))
FxNeg(x) == Fx(~x.neg, x.mag)
FxAbs(x) == Fx(FALSE, x.mag)
FxAdd(x, y) ==
    IF x.neg = y.neg THEN Fx(x.neg, NatAdd(x.mag, y.mag))
    ELSE IF NatLess(x.mag, y.mag) THEN Fx(y.neg, NatSub(y.mag, x.mag))
    ELSE Fx(x.neg, NatSub(x.mag, y.mag))
FxSub(x, y) == FxAdd(x, FxNeg(y))
FxMul(x, y) ==
    Fx(x.neg # y.neg, NatDropLimbs(NatMul(x.mag, y.mag), FracLimbs))
FxDiv(x, y) ==
    Fx(x.neg # y.neg, NatDiv(NatShiftLimbs(x.mag, FracLimbs), y.mag))
FxHalf(x) == Fx(x.neg, NatDivLimb(x.mag, 2))
FxSqrt(x) == Fx(FALSE, NatSqrt(NatShiftLimbs(x.mag, FracLimbs)))
FxLess(x, y) ==
    IF x.neg # y.neg THEN x.neg
    ELSE IF x.neg THEN NatLess(y.mag, x.mag) ELSE NatLess(x.mag, y.mag)

\* ---- the floating-point formats
\* x rounded to p significant bits, to nearest, ties to even
RoundToBits(x, p) ==
    LET drop == NatBits(x.mag) - p
        q    == NatShiftRight(x.mag, drop)
        r    == NatSub(x.mag, NatShiftLeft(q, drop))
        half == NatShiftLeft(<<1>>, drop - 1)
        up   == NatLess(half, r) \/ (r = half /\ NatOdd(q))
    IN IF drop <= 0 THEN x
       ELSE Fx(x.neg, NatShiftLeft(IF up THEN NatAdd(q, <<1>>) ELSE q, drop))
FloatBits == 24
DoubleBits == 53
float(x) == RoundToBits(x, FloatBits)
double(x) == RoundToBits(x, DoubleBits)

\* M_PI of <math.h>: the double nearest to pi, 884279719003555 / 2^48
M_PI == Fx(FALSE, NatShiftLimbs(<<12288, 4276, 23202, 4639, 3>>, FracLimbs - 4))

\* ---- the functions of <math.h>
sqrt(x) == double(FxSqrt(x))

\* term - term x2/(k(k+1)) + term x2^2/(k(k+1)(k+2)(k+3)) - ...
RECURSIVE TaylorTrig(_, _, _, _)
TaylorTrig(term, x2, k, sum) ==
    IF term.mag = <<>> THEN sum
    ELSE LET next == Fx(~term.neg,
                        NatDivLimb(FxMul(term, x2).mag, k * (k + 1)))
             acc  == FxAdd(sum, term)
         IN IF Evaluated(acc) THEN TaylorTrig(next, x2, k + 2, acc) ELSE acc
sin(x) == double(TaylorTrig(x, FxMul(x, x), 2, FxInt(0)))
cos(x) == double(TaylorTrig(FxInt(1), FxMul(x, x), 1, FxInt(0)))

\* z + z^3/6 + 3 z^5/40 + ... for 0 <= z <= 1/2
RECURSIVE AsinSeries(_, _, _, _)
AsinSeries(term, z2, k, sum) ==
    IF term.mag = <<>> THEN sum
    ELSE LET next == Fx(term.neg,
                        NatDivLimb(NatMulLimb(FxMul(term, z2).mag, k * k),
                                   (k + 1) * (k + 2)))
             acc  == FxAdd(sum, term)
         IN IF Evaluated(acc) THEN AsinSeries(next, z2, k + 2, acc) ELSE acc
\* as libm does it: asin x = pi/2 - 2 asin(sqrt((1 - x)/2)) for x > 1/2
asin(x) ==
    LET ax   == FxAbs(x)
        half == FxHalf(FxInt(1))
        z    == IF FxLess(half, ax)
                THEN FxSqrt(FxHalf(FxSub(FxInt(1), ax)))
                ELSE ax
        s    == AsinSeries(z, FxMul(z, z), 1, FxInt(0))
        r    == IF FxLess(half, ax)
                THEN FxSub(FxHalf(M_PI), FxAdd(s, s))
                ELSE s
    IN double(Fx(x.neg, r.mag))

\* ---- Geometry
EARTH_RADIUSi == 6371000
\* double Geometry::EARTH_RADIUS_43 = 4.0/3.0 * EARTH_RADIUSi
Geometry_EARTH_RADIUS_43 ==
    double(FxMul(double(FxDiv(FxInt(4), FxInt(3))), FxInt(EARTH_RADIUSi)))

\* The same with the elevation subtracted from, not added to, M_PI/2.0.
heightFromEtaBeam_Mutant(eta_arg, b_arg) ==
    LET eta == float(eta_arg)
        b   == float(b_arg)
        a   == Geometry_EARTH_RADIUS_43
        aa  == double(FxMul(a, a))
        bb  == float(FxMul(b, b))
        ab2 == double(FxMul(double(FxMul(FxInt(2), a)), b))
        cg  == cos(double(FxSub(double(FxHalf(M_PI)), eta)))
        c2  == double(FxSub(double(FxAdd(aa, bb)), double(FxMul(ab2, cg))))
    IN double(FxSub(sqrt(c2), a))
\* double heightFromEtaBeam(float eta, float b):
\*   sqrt( a*a + b*b - 2.0*a*b*cos(M_PI/2.0 + eta) ) - a
\* The parameters are floats: the arguments are rounded to floats and b*b
\* is a float product.
heightFromEtaBeam(eta_arg, b_arg) ==
    LET eta == float(eta_arg)
        b   == float(b_arg)
        a   == Geometry_EARTH_RADIUS_43
        aa  == double(FxMul(a, a))
        bb  == float(FxMul(b, b))
        ab2 == double(FxMul(double(FxMul(FxInt(2), a)), b))
        cg  == cos(double(FxAdd(double(FxHalf(M_PI)), eta)))
        c2  == double(FxSub(double(FxAdd(aa, bb)), double(FxMul(ab2, cg))))
    IN double(FxSub(sqrt(c2), a))

\* double beamFromEtaH(double eta, double h)
beamFromEtaH(eta, h) ==
    LET c     == double(FxAdd(Geometry_EARTH_RADIUS_43, h))
        a     == Geometry_EARTH_RADIUS_43
        gamma == double(FxAdd(eta, double(FxHalf(M_PI))))
        beta  == double(FxSub(double(FxSub(M_PI, gamma)),
                   asin(double(FxDiv(double(FxMul(a, sin(gamma))), c)))))
    IN double(FxDiv(double(FxMul(sin(beta), c)), sin(gamma)))

\* ---- the calls
\* Elevations of whole degrees, as a caller computes them: deg * M_PI/180.
DegToRad(d) == double(FxDiv(double(FxMul(FxInt(d), M_PI)), FxInt(180)))
ElevationDegrees == {0, 1, 5, 15, 29, 30, 45, 60}
\* Slant ranges in thirds of a metre: whole metres, which a float holds
\* exactly, and ranges that no float holds.
BeamThirds == {3000, 3001, 30001, 150000, 300002, 733433, 749999, 750000}
Beam(t) == double(FxDiv(FxInt(t), FxInt(3)))

GeomIdle ==
    /\ geomEta = FxInt(0)
    /\ geomB = FxInt(0)
    /\ geomH = FxInt(0)
    /\ geomBeam = FxInt(0)
    /\ geomPc = "idle"

GeomInit ==
    /\ \E d \in ElevationDegrees : geomEta = DegToRad(d)
    /\ \E t \in BeamThirds : geomB = Beam(t)
    /\ geomH = FxInt(0)
    /\ geomBeam = FxInt(0)
    /\ geomPc = "ready"

HeightFromEtaBeam ==
    /\ geomPc = "ready"
    /\ geomH' = heightFromEtaBeam(geomEta, geomB)
    /\ geomPc' = "height"
    /\ UNCHANGED <<geomEta, geomB, geomBeam, exceptGeom>>

BeamFromEtaH ==
    /\ geomPc = "height"
    /\ geomBeam' = beamFromEtaH(geomEta, geomH)
    /\ geomPc' = "done"
    /\ UNCHANGED <<geomEta, geomB, geomH, exceptGeom>>

(***************************************************************************)
(* OdimIoUtilities_addQualityFields and OdimIoUtilities_addRaveField       *)
(*                                                                         *)
(* A node name is known by the length of the name the caller's format      *)
(* gives and, below it, by the number k of its "/quality<k>" part (0 for   *)
(* the caller's node itself).  The HLHDF calls RaveHL_createGroup,         *)
(* RaveHL_addAttributes and RaveHL_addData are not part of the sources     *)
(* modelled: each field carries which of them, if any, fails for it.       *)
(***************************************************************************)
MaxFields == 2
NameSize == 1024

NullField == [null |-> TRUE]
Fates == {"ok", "createGroup", "addAttributes", "addData"}
QualityAttributes ==
    { << Attribute("how/gasattn", "Double", Round(3, -1), << >>, 0) >>,
      << Attribute("what/gain", "Double", Round(1, 0), << >>, 0) >> }
Fields ==
    {NullField} \cup
    { [null |-> FALSE, attributes |-> a, fate |-> f] :
        a \in QualityAttributes, f \in Fates }
FieldLists == UNION { [1..n -> Fields] : n \in 0..MaxFields }
\* Names that are short, that leave room for "/quality<k>" or do not, and
\* names that do not fit themselves.
NodeNameLens == {8, NameSize - 10, NameSize - 9, NameSize - 1, NameSize}

NodeName(len, k) == [len |-> len, quality |-> k]
Node(kind, name, value) == [kind |-> kind, name |-> name, value |-> value]
RaveHL_hasNodeByName(nodes, name) ==
    \E i \in 1..Len(nodes) : nodes[i].kind = "group" /\ nodes[i].name = name

\* The number of characters "%d" gives for k >= 0.
RECURSIVE DecimalDigits(_)
DecimalDigits(k) == IF k < 10 THEN 1 ELSE 1 + DecimalDigits(k \div 10)
\* What vsnprintf returns for "%s/quality%d": the length of the whole name.
QualityNameLen(len, k) == len + Len("/quality") + DecimalDigits(k)

\* OdimIoUtilities_addRaveField(field, nodelist, version,
\*                              "%s/quality%d", name, k):
\* the result and the node list it leaves.
OdimIoUtilities_addRaveField(field, nodes, ver, len, k) ==
    LET name      == NodeName(len, k)
        grouped   == IF RaveHL_hasNodeByName(nodes, name) THEN nodes
                     ELSE Append(nodes, Node("group", name, << >>))
        attrs     == OdimIoUtilities_convertHowAttributesFromInternalRave(
                         field.attributes, ver)
        attributed == Append(grouped, Node("attributes", name, attrs))
    IN IF QualityNameLen(len, k) >= NameSize
       THEN [result |-> 0, nodelist |-> nodes]
       ELSE IF ~RaveHL_hasNodeByName(nodes, name) /\ field.fate = "createGroup"
       THEN [result |-> 0, nodelist |-> nodes]
       ELSE IF field.fate = "addAttributes"
       THEN [result |-> 0, nodelist |-> grouped]
       ELSE IF field.fate = "addData"
       THEN [result |-> 0, nodelist |-> attributed]
       ELSE [result |-> 1,
             nodelist |-> Append(attributed, Node("data", name, << >>))]

\* The node lists a call can find: empty, or with the group of the first
\* quality field already there.
NodeListsBefore(len) == { << >>, << Node("group", NodeName(len, 1), << >>) >> }

QualityIdle ==
    /\ fields = << >>
    /\ nodeNameLen = 0
    /\ outVersion = -1
    /\ nodelist = << >>
    /\ nodelist0 = << >>
    /\ pindex = 0
    /\ fieldsTried = << >>
    /\ qualityResult = 0
    /\ qualityPc = "idle"

QualityInit ==
    /\ fields \in FieldLists
    /\ nodeNameLen \in NodeNameLens
    /\ outVersion \in {RaveIO_ODIM_Version_2_4 - 1, RaveIO_ODIM_Version_2_4}
    /\ nodelist \in NodeListsBefore(nodeNameLen)
    /\ nodelist0 = nodelist
    /\ pindex = 0
    /\ fieldsTried = << >>
    /\ qualityResult = 0
    /\ qualityPc = "ready"

\* Lines 242-262: the name is formatted and its length checked.
AddQualityFieldsEnter ==
    /\ qualityPc = "ready"
    /\ IF nodeNameLen < 0 \/ nodeNameLen >= NameSize
       THEN qualityResult' = 0 /\ qualityPc' = "done"
       ELSE qualityResult' = 1 /\ qualityPc' = "loop"
    /\ pindex' = 0
    /\ UNCHANGED <<fields, nodeNameLen, outVersion, nodelist, nodelist0,
                   fieldsTried, exceptQuality>>

\* The loop that goes on after a field that was not added.
AddQualityFieldsField_Mutant ==
    /\ qualityPc = "loop"
    /\ pindex < Len(fields)
    /\ LET field == fields[pindex + 1]
           added == OdimIoUtilities_addRaveField(field, nodelist, outVersion,
                                                 nodeNameLen, pindex + 1)
       IN /\ qualityResult' = IF field.null THEN 0 ELSE added.result
          /\ nodelist' = IF field.null THEN nodelist ELSE added.nodelist
    /\ fieldsTried' = Append(fieldsTried, pindex + 1)
    /\ pindex' = pindex + 1
    /\ UNCHANGED <<fields, nodeNameLen, outVersion, nodelist0, qualityPc,
                   exceptQuality>>
\* Lines 263-271: one pass of the loop.
AddQualityFieldsField ==
    /\ qualityPc = "loop"
    /\ qualityResult = 1 /\ pindex < Len(fields)
    /\ LET field == fields[pindex + 1]
           added == OdimIoUtilities_addRaveField(field, nodelist, outVersion,
                                                 nodeNameLen, pindex + 1)
       IN /\ qualityResult' = IF field.null THEN 0 ELSE added.result
          /\ nodelist' = IF field.null THEN nodelist ELSE added.nodelist
    /\ fieldsTried' = Append(fieldsTried, pindex + 1)
    /\ pindex' = pindex + 1
    /\ UNCHANGED <<fields, nodeNameLen, outVersion, nodelist0, qualityPc,
                   exceptQuality>>

\* Lines 263, 273-274: the loop ends and the result is returned.
AddQualityFieldsReturn ==
    /\ qualityPc = "loop"
    /\ ~(qualityResult = 1 /\ pindex < Len(fields))
    /\ qualityPc' = "done"
    /\ UNCHANGED <<fields, nodeNameLen, outVersion, nodelist, nodelist0,
                   pindex, fieldsTried, qualityResult, exceptQuality>>

(***************************************************************************)
(* PyVerticalProfile_New, _pyverticalprofile_dealloc and                   *)
(* PyVerticalProfile_GetNative                                             *)
(*                                                                         *)
(* The heap holds up to MaxNatives native profiles and up to MaxWrappers   *)
(* Python wrappers; an object is known by its address, NULL is no object.  *)
(* A native object has a reference count and a binding (the wrapper bound  *)
(* to it or NULL), a wrapper has ob_refcnt and vp.  The functions run      *)
(* under the interpreter lock, one call at a time.  A call that would      *)
(* leave a count above MaxRefs is not made.                                *)
(***************************************************************************)
MaxNatives == 2
MaxWrappers == MaxNatives
MaxRefs == 2
NULL == 0

NativeIds == 1..MaxNatives
WrapperIds == 1..MaxWrappers
FreedNative == [alive |-> FALSE, refs |-> 0, binding |-> NULL]
FreedWrapper == [alive |-> FALSE, ob_refcnt |-> 0, vp |-> NULL]
Heap(n, w) == [natives |-> n, wrappers |-> w]

\* ---- rave_object.h and the Python object macros, on a heap s
RAVE_OBJECT_NEW(s, n) ==
    [s EXCEPT !.natives[n] = [alive |-> TRUE, refs |-> 1, binding |-> NULL]]
RAVE_OBJECT_COPY(s, n) == [s EXCEPT !.natives[n].refs = @ + 1]
RAVE_OBJECT_RELEASE(s, n) ==
    IF n = NULL THEN s
    ELSE IF s.natives[n].refs <= 1 THEN [s EXCEPT !.natives[n] = FreedNative]
    ELSE [s EXCEPT !.natives[n].refs = @ - 1]
RAVE_OBJECT_GETBINDING(s, n) == s.natives[n].binding
RAVE_OBJECT_BIND(s, n, w) == [s EXCEPT !.natives[n].binding = w]
RAVE_OBJECT_UNBIND(s, n, w) ==
    IF s.natives[n].binding = w THEN [s EXCEPT !.natives[n].binding = NULL]
    ELSE s
PyObject_NEW(s, w) ==
    [s EXCEPT !.wrappers[w] = [alive |-> TRUE, ob_refcnt |-> 1, vp |-> NULL]]
PyObject_Del(s, w) == [s EXCEPT !.wrappers[w] = FreedWrapper]
Py_INCREF(s, w) == [s EXCEPT !.wrappers[w].ob_refcnt = @ + 1]

\* PyVerticalProfile_GetNative(pyobj): the heap after it and what it returns
PyVerticalProfile_GetNative(s, pyobj) ==
    [heap |-> RAVE_OBJECT_COPY(s, s.wrappers[pyobj].vp),
     result |-> s.wrappers[pyobj].vp]

\* The same without the release at the label done.
PyVerticalProfile_New_Mutant(s, p, allocNative, allocWrapper) ==
    IF p = NULL /\ allocNative = NULL
    THEN [heap |-> s, result |-> NULL]
    ELSE
    LET cp     == IF p = NULL THEN allocNative ELSE p
        s1     == IF p = NULL THEN RAVE_OBJECT_NEW(s, cp)
                  ELSE RAVE_OBJECT_COPY(s, p)
        bound  == IF p = NULL THEN NULL ELSE RAVE_OBJECT_GETBINDING(s1, p)
        s2     == IF bound # NULL THEN Py_INCREF(s1, bound) ELSE s1
        result == IF bound # NULL THEN bound ELSE allocWrapper
        s3     == IF bound = NULL /\ result # NULL
                  THEN LET created == PyObject_NEW(s2, result)
                           copied  == RAVE_OBJECT_COPY(created, cp)
                           set     == [copied EXCEPT !.wrappers[result].vp = cp]
                       IN RAVE_OBJECT_BIND(set, cp, result)
                  ELSE s2
    IN [heap |-> s3, result |-> result]
\* PyVerticalProfile_New(p): the heap after it and what it returns.
\* allocNative is what RAVE_OBJECT_NEW returns when it is called (NULL when
\* it fails), allocWrapper what PyObject_NEW returns.
PyVerticalProfile_New(s, p, allocNative, allocWrapper) ==
    IF p = NULL /\ allocNative = NULL
    THEN [heap |-> s, result |-> NULL]
    ELSE
    LET cp     == IF p = NULL THEN allocNative ELSE p
        s1     == IF p = NULL THEN RAVE_OBJECT_NEW(s, cp)
                  ELSE RAVE_OBJECT_COPY(s, p)
        bound  == IF p = NULL THEN NULL ELSE RAVE_OBJECT_GETBINDING(s1, p)
        s2     == IF bound # NULL THEN Py_INCREF(s1, bound) ELSE s1
        result == IF bound # NULL THEN bound ELSE allocWrapper
        s3     == IF bound = NULL /\ result # NULL
                  THEN LET created == PyObject_NEW(s2, result)
                           copied  == RAVE_OBJECT_COPY(created, cp)
                           set     == [copied EXCEPT !.wrappers[result].vp = cp]
                       IN RAVE_OBJECT_BIND(set, cp, result)
                  ELSE s2
    IN [heap |-> RAVE_OBJECT_RELEASE(s3, cp), result |-> result]

\* _pyverticalprofile_dealloc(obj)
pyverticalprofile_dealloc(s, obj) ==
    IF obj = NULL THEN s
    ELSE LET unbound  == RAVE_OBJECT_UNBIND(s, s.wrappers[obj].vp, obj)
             released == RAVE_OBJECT_RELEASE(unbound, s.wrappers[obj].vp)
         IN PyObject_Del(released, obj)

\* ---- the calls
\* The address an allocation returns: the lowest one that is free, or NULL
\* when there is none.
FreeNatives == { n \in NativeIds : ~natives[n].alive }
FreeWrappers == { w \in WrapperIds : ~wrappers[w].alive }
Lowest(S) == IF S = {} THEN NULL ELSE CHOOSE x \in S : \A y \in S : x <= y
NoCall == [op |-> "none", arg |-> NULL, result |-> NULL,
           before |-> Heap(<< >>, << >>)]

PyIdle ==
    /\ natives = [n \in NativeIds |-> FreedNative]
    /\ wrappers = [w \in WrapperIds |-> FreedWrapper]
    /\ held = [n \in NativeIds |-> 0]
    /\ pyLast = [NoCall EXCEPT !.op = "idle"]

PyInit ==
    /\ natives = [n \in NativeIds |-> FreedNative]
    /\ wrappers = [w \in WrapperIds |-> FreedWrapper]
    /\ held = [n \in NativeIds |-> 0]
    /\ pyLast = NoCall

\* PyVerticalProfile_New(p), for NULL or for a native profile the caller
\* holds a reference to; either allocation can fail.
PyVerticalProfileNew ==
    /\ pyLast.op # "idle"
    /\ \E p \in {NULL} \cup { n \in NativeIds : held[n] > 0 },
          allocNative \in {NULL, Lowest(FreeNatives)},
          allocWrapper \in {NULL, Lowest(FreeWrappers)} :
          LET s == Heap(natives, wrappers)
              r == PyVerticalProfile_New(s, p, allocNative, allocWrapper)
          IN /\ p # NULL /\ natives[p].binding = NULL
                    => natives[p].refs < MaxRefs
             /\ p # NULL /\ natives[p].binding # NULL
                    => wrappers[natives[p].binding].ob_refcnt < MaxRefs
             /\ natives' = r.heap.natives
             /\ wrappers' = r.heap.wrappers
             /\ pyLast' = [op |-> "New", arg |-> p, result |-> r.result,
                           before |-> s]
    /\ UNCHANGED <<held, exceptPy>>

\* PyVerticalProfile_GetNative(pyobj): the caller now holds a reference.
PyVerticalProfileGetNative ==
    /\ pyLast.op # "idle"
    /\ \E w \in WrapperIds :
          LET s == Heap(natives, wrappers)
              r == PyVerticalProfile_GetNative(s, w)
          IN /\ wrappers[w].alive
             /\ natives[wrappers[w].vp].refs < MaxRefs
             /\ natives' = r.heap.natives
             /\ wrappers' = r.heap.wrappers
             /\ held' = [held EXCEPT ![r.result] = @ + 1]
             /\ pyLast' = [op |-> "GetNative", arg |-> w,
                           result |-> r.result, before |-> s]
    /\ UNCHANGED exceptPy

\* A C caller releases a reference it holds.
ReleaseNative ==
    /\ pyLast.op # "idle"
    /\ \E n \in NativeIds :
          LET s == Heap(natives, wrappers)
              r == RAVE_OBJECT_RELEASE(s, n)
          IN /\ held[n] > 0
             /\ natives' = r.natives
             /\ wrappers' = r.wrappers
             /\ held' = [held EXCEPT ![n] = @ - 1]
             /\ pyLast' = [op |-> "Release", arg |-> n, result |-> NULL,
                           before |-> s]
    /\ UNCHANGED exceptPy

\* Python drops a reference to a wrapper; the last one deallocates it.
PyDecref ==
    /\ pyLast.op # "idle"
    /\ \E w \in WrapperIds :
          LET s == Heap(natives, wrappers)
              r == IF wrappers[w].ob_refcnt > 1
                   THEN [s EXCEPT !.wrappers[w].ob_refcnt = @ - 1]
                   ELSE pyverticalprofile_dealloc(s, w)
          IN /\ wrappers[w].alive
             /\ natives' = r.natives
             /\ wrappers' = r.wrappers
             /\ pyLast' = [op |-> IF wrappers[w].ob_refcnt > 1
                                  THEN "Decref" ELSE "dealloc",
                           arg |-> w, result |-> NULL, before |-> s]
    /\ UNCHANGED <<held, exceptPy>>

(***************************************************************************)
(* The Cartesian composite generator (cartesiancomposite.h)                *)
(*                                                                         *)
(* The header declares the generator; its documentation and the            *)
(* specification of the system give what is modelled here.  The world is   *)
(* the line of the polar composite above: a pixel and a radar site are     *)
(* positions in km.  A Cartesian product holds, for every pixel, nodata,   *)
(* undetect or a physical value.  The output raster holds raw values of    *)
(* one byte; NODATA (255) and UNDETECT (0) are its reserved codes.         *)
(***************************************************************************)
MaxObjects == 2
UNDETECT == 0
\* the values a pixel of one byte can hold
NativeMin == UNDETECT
NativeMax == NODATA
Unwritten == 0 - 1

NoData == [type |-> "nodata", phys |-> 0]
Undetect == [type |-> "undetect", phys |-> 0]
Data(v) == [type |-> "data", phys |-> v]

CartesianPixels == {0, 100, 200, 300}
CartesianIds == {"P", "Q", "R", "S"}
\* P, Q and R share grid 1, S has another grid.
\*   pixel   0: no object has a value
\*   pixel 100: only Q, the farthest, has a value
\*   pixel 200: P and Q have values, R (the nearest site) has none
\*   pixel 300: all three have values
CartesianProducts ==
    [ P |-> [grid |-> 1, site |-> 10,
             data |-> [x \in CartesianPixels |->
                          CASE x = 0   -> NoData
                            [] x = 100 -> Undetect
                            [] x = 200 -> Data(300)
                            [] x = 300 -> Data(40)]],
      Q |-> [grid |-> 1, site |-> 380,
             data |-> [x \in CartesianPixels |->
                          CASE x = 0   -> Undetect
                            [] x = 100 -> Data(255)
                            [] x = 200 -> Data(60)
                            [] x = 300 -> Data(-30)]],
      R |-> [grid |-> 1, site |-> 170,
             data |-> [x \in CartesianPixels |->
                          CASE x = 0   -> NoData
                            [] x = 100 -> NoData
                            [] x = 200 -> Undetect
                            [] x = 300 -> Data(20)]],
      S |-> [grid |-> 2, site |-> 50,
             data |-> [x \in CartesianPixels |-> Data(5)]] ]
CartesianAreas == {1}
Gains == {0, 1, 2}
Offsets == {-30, 0}

\* round(n / d) for d # 0, halves away from zero
RoundDiv(n, d) ==
    LET an == Abs(n)
        ad == Abs(d)
        q  == (2 * an + ad) \div (2 * ad)
    IN  IF (n < 0) # (d < 0) THEN 0 - q ELSE q
Clamp(raw) == IF raw < NativeMin THEN NativeMin
              ELSE IF raw > NativeMax THEN NativeMax ELSE raw
\* raw = round((phys - offset) / gain), clamped to the native range
Pack(phys, gain, offset) == Clamp(RoundDiv(phys - offset, gain))

CartesianDistance(o, x) == Abs(CartesianProducts[o].site - x)
HasValue(o, x) == CartesianProducts[o].data[x].type = "data"

\* The object to copy from at pixel x: of the objects that have a value
\* there the one whose site is nearest (the first added of several at the
\* same distance); 0 when no object has a value.
CartesianSelect(objects, x) ==
    LET valid == { i \in 1..Len(objects) : HasValue(objects[i], x) }
    IN  IF valid = {} THEN 0
        ELSE CHOOSE i \in valid :
               \A j \in valid :
                  \/ CartesianDistance(objects[i], x)
                         < CartesianDistance(objects[j], x)
                  \/ /\ CartesianDistance(objects[i], x)
                            = CartesianDistance(objects[j], x)
                     /\ i <= j

\* The raw value of pixel x of the output.
CartesianPixel(c, x) ==
    LET i == CartesianSelect(c.objects, x)
    IN  IF i = 0 THEN NODATA
        ELSE Pack(CartesianProducts[c.objects[i]].data[x].phys,
                  c.gain, c.offset)

\* InvalidConfig: no objects, a gain of 0, or an object on another grid.
CartesianConfigValid(c, area) ==
    /\ c.objects # << >>
    /\ c.gain # 0
    /\ \A i \in 1..Len(c.objects) : CartesianProducts[c.objects[i]].grid = area

CartesianIdle ==
    /\ cartesian = [objects |-> << >>, gain |-> 1, offset |-> 0]
    /\ cartesianState = "idle"
    /\ cartesianRaster = [x \in CartesianPixels |-> Unwritten]
    /\ cartesianPicked = [x \in CartesianPixels |-> ""]
    /\ cartesianNext = {}

CartesianInit ==
    /\ cartesian = [objects |-> << >>, gain |-> 1, offset |-> 0]
    /\ cartesianState = "Configuring"
    /\ cartesianRaster = [x \in CartesianPixels |-> Unwritten]
    /\ cartesianPicked = [x \in CartesianPixels |-> ""]
    /\ cartesianNext = {}

CartesianComposite_add ==
    /\ cartesianState = "Configuring"
    /\ Len(cartesian.objects) < MaxObjects
    /\ \E o \in CartesianIds :
          /\ \A i \in 1..Len(cartesian.objects) : cartesian.objects[i] # o
          /\ cartesian' = [cartesian EXCEPT !.objects = Append(@, o)]
    /\ UNCHANGED <<cartesianState, cartesianRaster, cartesianPicked,
                   cartesianNext, exceptCartesian>>

CartesianComposite_setGain ==
    /\ cartesianState = "Configuring"
    /\ \E g \in Gains : cartesian' = [cartesian EXCEPT !.gain = g]
    /\ UNCHANGED <<cartesianState, cartesianRaster, cartesianPicked,
                   cartesianNext, exceptCartesian>>

CartesianComposite_setOffset ==
    /\ cartesianState = "Configuring"
    /\ \E o \in Offsets : cartesian' = [cartesian EXCEPT !.offset = o]
    /\ UNCHANGED <<cartesianState, cartesianRaster, cartesianPicked,
                   cartesianNext, exceptCartesian>>

\* CartesianComposite_nearest(self, area): the configuration is checked
\* before any pixel is written.
CartesianComposite_nearest_Begin ==
    /\ cartesianState = "Configuring"
    /\ \E area \in CartesianAreas :
          IF CartesianConfigValid(cartesian, area)
          THEN cartesianState' = "Generating"
               /\ cartesianNext' = CartesianPixels
          ELSE cartesianState' = "Failed"
               /\ cartesianNext' = {}
    /\ UNCHANGED <<cartesian, cartesianRaster, cartesianPicked,
                   exceptCartesian>>

\* One pixel of the loop over the pixels, in ascending order.
CartesianComposite_nearest_Pixel ==
    /\ cartesianState = "Generating"
    /\ cartesianNext # {}
    /\ LET x == SetMin(cartesianNext)
           i == CartesianSelect(cartesian.objects, x)
       IN /\ cartesianRaster' =
                 [cartesianRaster EXCEPT ![x] = CartesianPixel(cartesian, x)]
          /\ cartesianPicked' =
                 [cartesianPicked EXCEPT
                     ![x] = IF i = 0 THEN "none" ELSE cartesian.objects[i]]
          /\ cartesianNext' = cartesianNext \ {x}
    /\ UNCHANGED <<cartesian, cartesianState, exceptCartesian>>

CartesianComposite_nearest_Return ==
    /\ cartesianState = "Generating"
    /\ cartesianNext = {}
    /\ cartesianState' = "Emitted"
    /\ UNCHANGED <<cartesian, cartesianRaster, cartesianPicked,
                   cartesianNext, exceptCartesian>>

(***************************************************************************)
(* Composite_nearest split into horizontal bands of pixels                 *)
(*                                                                         *)
(* The specification of the system allows nearest(area) to be run by       *)
(* concurrent workers, each owning a band of rows of the output raster,    *)
(* on the grounds that the source volumes are read-only, that no two       *)
(* workers write the same pixel and that the site coordinates hold no      *)
(* shared mutable state.  A worker goes through the pixels of its band;    *)
(* for each it has its own Coordinates object compute the position of the  *)
(* bin (Coordinates::setBinPosition, statement by statement as above) and  *)
(* writes to its pixel what it reads from the object.  What a pixel holds  *)
(* stands for everything the generator derives from the bin position.      *)
(***************************************************************************)
\* Row r of the raster lies at range RowRanges[r] of the site, column c at
\* azimuth ColAzimuths[c]; worker t owns row t.
RowRanges == <<300, 1000>>
ColAzimuths == <<0, 90>>
ParallelPixels == Threads \X (1..Len(ColAzimuths))
Band(t) == { px \in ParallelPixels : px[1] = t }
PixelArgs(px) == [azimuth |-> ColAzimuths[px[2]], range |-> RowRanges[px[1]]]

\* What is read from a Coordinates object after setBinPosition.
BinLatLon(c) == <<c.thetaBin, c.phiBin>>

\* The variables of the components other than these two.
exceptCoordAndParallel == <<elevVars, howVars, sourceVars, boxVars,
    compositeVars, geomVars, qualityVars, pyVars, cartesianVars>>

ParallelIdle ==
    /\ parRaster = [px \in ParallelPixels |-> Unwritten]
    /\ parWrites = [px \in ParallelPixels |-> << >>]
    /\ parTodo = [t \in Threads |-> << >>]

\* The workers are started, each with the columns of its band.
ParallelInit ==
    /\ statics = [x1 |-> 0, x2 |-> 0, x3 |-> 0]
    /\ \E s \in Sites : coords = [t \in Threads |-> origin(s[1], s[2])]
    /\ binArgs = [t \in Threads |-> [azimuth |-> 0, range |-> 0]]
    /\ binPc = [t \in Threads |-> "ready"]
    /\ parRaster = [px \in ParallelPixels |-> Unwritten]
    /\ parWrites = [px \in ParallelPixels |-> << >>]
    /\ parTodo = [t \in Threads |-> [c \in 1..Len(ColAzimuths) |-> c]]

\* Worker t turns to the next pixel of its band and calls setBinPosition.
StartPixel(t) ==
    /\ binPc[t] = "ready"
    /\ parTodo[t] # << >>
    /\ binArgs' = [binArgs EXCEPT ![t] = PixelArgs(<<t, Head(parTodo[t])>>)]
    /\ binPc' = [binPc EXCEPT ![t] = "x1"]
    /\ UNCHANGED <<statics, coords, parallelVars, exceptCoordAndParallel>>

\* setBinPosition has returned: worker t writes the pixel.
WritePixel(t) ==
    /\ binPc[t] = "done"
    /\ parTodo[t] # << >>
    /\ LET px == <<t, Head(parTodo[t])>>
       IN  /\ parRaster' = [parRaster EXCEPT ![px] = BinLatLon(coords[t])]
           /\ parWrites' = [parWrites EXCEPT ![px] = Append(@, t)]
    /\ parTodo' = [parTodo EXCEPT ![t] = Tail(@)]
    /\ binPc' = [binPc EXCEPT ![t] = "ready"]
    /\ UNCHANGED <<statics, coords, binArgs, exceptCoordAndParallel>>

\* The raster of the run by one worker, pixel after pixel.
SequentialRaster ==
    [px \in ParallelPixels |->
        BinLatLon(setBinPosition(coords[px[1]], PixelArgs(px).azimuth,
                                   PixelArgs(px).range))]

(***************************************************************************)
(* The specifications                                                      *)
(***************************************************************************)
InitElev == ElevInit /\ CoordIdle /\ HowIdle /\ SourceIdle /\ BoxIdle
    /\ CompositeIdle
    /\ GeomIdle
    /\ QualityIdle
    /\ PyIdle
    /\ CartesianIdle
    /\ ParallelIdle
NextElev == FindClosestElevations
SpecElev == InitElev /\ [][NextElev]_vars

InitCoord == CoordInit /\ ElevIdle /\ HowIdle /\ SourceIdle /\ BoxIdle
    /\ CompositeIdle
    /\ GeomIdle
    /\ QualityIdle
    /\ PyIdle
    /\ CartesianIdle
    /\ ParallelIdle
NextCoord ==
    \E t \in Threads :
        \/ StmtX1(t) \/ StmtX2(t) \/ StmtX3(t)
        \/ StmtP1(t) \/ StmtP2(t) \/ StmtP3(t)
        \/ StmtPhiBin(t) \/ StmtThetaBin(t)
SpecCoord == InitCoord /\ [][NextCoord]_vars

InitHow == HowInit /\ ElevIdle /\ CoordIdle /\ SourceIdle /\ BoxIdle
    /\ CompositeIdle
    /\ GeomIdle
    /\ QualityIdle
    /\ PyIdle
    /\ CartesianIdle
    /\ ParallelIdle
NextHow ==
    \/ ConvertHowAttributeFromInternalRave
    \/ ConvertHowAttributesFromInternalRave
    \/ ConvertHowAttributeToInternalRave
SpecHow == InitHow /\ [][NextHow]_vars

InitSource == SourceInit /\ ElevIdle /\ CoordIdle /\ HowIdle /\ BoxIdle
    /\ CompositeIdle
    /\ GeomIdle
    /\ QualityIdle
    /\ PyIdle
    /\ CartesianIdle
    /\ ParallelIdle
NextSource == GetIdFromSource \/ GetNodOrCmtFromSource
SpecSource == InitSource /\ [][NextSource]_vars

InitBox == BoxInit /\ ElevIdle /\ CoordIdle /\ HowIdle /\ SourceIdle
    /\ CompositeIdle
    /\ GeomIdle
    /\ QualityIdle
    /\ PyIdle
    /\ CartesianIdle
    /\ ParallelIdle
NextBox == GetBoundingBoxEnter \/ GetBoundingBoxSample \/ GetBoundingBoxReturn
SpecBox == InitBox /\ [][NextBox]_vars

InitComposite == CompositeInit /\ ElevIdle /\ CoordIdle /\ HowIdle
    /\ SourceIdle /\ BoxIdle
    /\ GeomIdle
    /\ QualityIdle
    /\ PyIdle
    /\ CartesianIdle
    /\ ParallelIdle
NextComposite ==
    \/ Composite_add
    \/ Composite_setProduct
    \/ Composite_setSelectionMethod
    \/ Composite_setHeight
    \/ Composite_setElevationAngle
    \/ Composite_setRange
    \/ Composite_addParameter
    \/ Composite_nearest_Begin
    \/ Composite_nearest_Pixel
    \/ Composite_nearest_Return
SpecComposite == InitComposite /\ [][NextComposite]_vars

InitGeom == GeomInit /\ ElevIdle /\ CoordIdle /\ HowIdle /\ SourceIdle
    /\ BoxIdle /\ CompositeIdle
    /\ QualityIdle
    /\ PyIdle
    /\ CartesianIdle
    /\ ParallelIdle
NextGeom == HeightFromEtaBeam \/ BeamFromEtaH
SpecGeom == InitGeom /\ [][NextGeom]_vars

InitQuality == QualityInit /\ ElevIdle /\ CoordIdle /\ HowIdle /\ SourceIdle
    /\ BoxIdle /\ CompositeIdle /\ GeomIdle
    /\ PyIdle
    /\ CartesianIdle
    /\ ParallelIdle
NextQuality ==
    \/ AddQualityFieldsEnter
    \/ AddQualityFieldsField
    \/ AddQualityFieldsReturn
SpecQuality == InitQuality /\ [][NextQuality]_vars

InitPy == PyInit /\ ElevIdle /\ CoordIdle /\ HowIdle /\ SourceIdle
    /\ BoxIdle /\ CompositeIdle /\ GeomIdle /\ QualityIdle
    /\ CartesianIdle
    /\ ParallelIdle
NextPy ==
    \/ PyVerticalProfileNew
    \/ PyVerticalProfileGetNative
    \/ ReleaseNative
    \/ PyDecref
SpecPy == InitPy /\ [][NextPy]_vars

InitCartesian == CartesianInit /\ ElevIdle /\ CoordIdle /\ HowIdle
    /\ SourceIdle /\ BoxIdle /\ CompositeIdle /\ GeomIdle /\ QualityIdle
    /\ PyIdle
    /\ ParallelIdle
NextCartesian ==
    \/ CartesianComposite_add
    \/ CartesianComposite_setGain
    \/ CartesianComposite_setOffset
    \/ CartesianComposite_nearest_Begin
    \/ CartesianComposite_nearest_Pixel
    \/ CartesianComposite_nearest_Return
SpecCartesian == InitCartesian /\ [][NextCartesian]_vars

InitParallel == ParallelInit /\ ElevIdle /\ HowIdle /\ SourceIdle /\ BoxIdle
    /\ CompositeIdle /\ GeomIdle /\ QualityIdle /\ PyIdle /\ CartesianIdle
NextParallel ==
    \E t \in Threads :
        \/ StartPixel(t)
        \/ StmtX1(t)
        \/ StmtX2(t)
        \/ StmtX3(t)
        \/ StmtP1(t)
        \/ StmtP2(t)
        \/ StmtP3(t)
        \/ StmtPhiBin(t)
        \/ StmtThetaBin(t)
        \/ WritePixel(t)
SpecParallel == InitParallel /\ [][NextParallel]_vars

(***************************************************************************)
(* The properties                                                          *)
(***************************************************************************)
\* ---- properties of findClosestElevations

ElevSet == { elevationAngles[k] : k \in 1..Len(elevationAngles) }
ValidIndex(k) == k >= 0 /\ k < Len(elevationAngles)
TargetInRange ==
    /\ elevationAngles # << >>
    /\ \E a \in ElevSet : a <= elevationAngle
    /\ \E a \in ElevSet : a >= elevationAngle

\* C1: for a target t with min S <= t <= max S the call returns indices
\* (l, u) with S[l] <= t <= S[u] and no element of S strictly between S[l]
\* and S[u].
C1_Bracketing ==
    (elevPc = "done" /\ TargetInRange) =>
        /\ ValidIndex(elevationIndexLower)
        /\ ValidIndex(elevationIndexUpper)
        /\ elevationAngles[elevationIndexLower + 1] <= elevationAngle
        /\ elevationAngle <= elevationAngles[elevationIndexUpper + 1]
        /\ \A a \in ElevSet :
              ~ (/\ elevationAngles[elevationIndexLower + 1] < a
                 /\ a < elevationAngles[elevationIndexUpper + 1])

\* C2: for a list of angles within [-pi/2, +pi/2] the call returns two valid
\* indices if and only if the target lies within [min, max] of the list.
C2_ValidIffInRange ==
    (elevPc = "done" /\ \A a \in ElevSet : (0 - HALF_PI) <= a /\ a <= HALF_PI) =>
        ((ValidIndex(elevationIndexLower) /\ ValidIndex(elevationIndexUpper))
            <=> TargetInRange)

\* C3: the lower index is -1 exactly when no elevation is <= target, the
\* upper index is -1 exactly when no elevation is >= target; a side that
\* exists is reported with its valid index.
C3_Sentinels ==
    elevPc = "done" =>
        /\ (elevationIndexLower = -1) <=> ~ \E a \in ElevSet : a <= elevationAngle
        /\ (elevationIndexUpper = -1) <=> ~ \E a \in ElevSet : a >= elevationAngle
        /\ elevationIndexLower # -1 => ValidIndex(elevationIndexLower)
        /\ elevationIndexUpper # -1 => ValidIndex(elevationIndexUpper)

\* ---- properties of setBinPosition

\* C4: whatever the interleaving of the two threads, a thread that has
\* finished setBinPosition on its own object reads the bin latitude and
\* longitude it would read when running alone.
C4_ThreadsIndependent ==
    \A t \in Threads :
        binPc[t] = "done" =>
            LET alone == setBinPosition(coords[t], binArgs[t].azimuth,
                                        binArgs[t].range)
            IN  /\ coords[t].phiBin = alone.phiBin
                /\ coords[t].thetaBin = alone.thetaBin

\* ---- properties of the how-attribute conversions

Written   == howOps = << "fromInternal" >> \/ howOps = << "fromInternalAll" >>
WrittenAndRead == Len(howOps) = 2
AttrIndices == 1..Len(attributes)

ScaledDoubleNames ==
    { "how/gasattn", "how/minrange", "how/maxrange",
      "how/melting_layer_top_a", "how/melting_layer_bottom_a" }
PowerDoubleNames == { "how/nomtxpower", "how/peakpwr", "how/avgpwr" }

IsScaledDouble(a) == a.format = "Double" /\ ToLower(a.name) \in ScaledDoubleNames
IsPowerDouble(a)  == a.format = "Double" /\ ToLower(a.name) \in PowerDoubleNames
IsTXpowerArray(a) == a.format = "DoubleArray" /\ ToLower(a.name) = "how/txpower"

\* |x - y| <= |y| * 2^-(MantBits - 2): x is y up to the rounding of two
\* operations (each is off by at most 2^-MantBits of its result).
WithinRounding(x, y) ==
    LET e  == Min(x.e, y.e)
        xn == x.m * Pow2(x.e - e)
        yn == y.m * Pow2(y.e - e)
    IN  Abs(xn - yn) * Pow2(MantBits - 2) <= Abs(yn)

\* C5 (as claimed): for version >= 2.4 and the doubles how/gasattn,
\* how/minrange, how/maxrange, how/melting_layer_top_A and
\* how/melting_layer_bottom_A, writing and then reading returns exactly the
\* original internal value.
C5_RoundTripExact ==
    (WrittenAndRead /\ version >= RaveIO_ODIM_Version_2_4) =>
        \A i \in AttrIndices :
            IsScaledDouble(origAttributes[i]) =>
                attributes[i].d = origAttributes[i].d

\* C5 (amended): writing and then reading returns the original value up to
\* rounding, a relative error of at most 2^-(MantBits - 2), and changes
\* nothing else of the attribute.
C5_RoundTripWithinRounding ==
    (WrittenAndRead /\ version >= RaveIO_ODIM_Version_2_4) =>
        \A i \in AttrIndices :
            IsScaledDouble(origAttributes[i]) =>
                /\ WithinRounding(attributes[i].d, origAttributes[i].d)
                /\ attributes[i] = [origAttributes[i] EXCEPT !.d = attributes[i].d]

\* A how/gasattn that came back from the round trip with another value.
C5_Witness ==
    /\ WrittenAndRead
    /\ version = RaveIO_ODIM_Version_2_4
    /\ origAttributes[1].name = "how/gasattn"
    /\ origAttributes[1].format = "Double"
    /\ attributes[1].d # origAttributes[1].d

\* C6: for version >= 2.4, writing and then reading a how/nomTXpower,
\* how/peakpwr or how/avgpwr double, or a how/TXpower array, yields the
\* original value again, values <= 0 included.
C6_PowerRoundTrip ==
    (WrittenAndRead /\ version >= RaveIO_ODIM_Version_2_4) =>
        \A i \in AttrIndices :
            /\ IsPowerDouble(origAttributes[i]) =>
                  attributes[i].d = origAttributes[i].d
            /\ IsTXpowerArray(origAttributes[i]) =>
                  attributes[i].darr = origAttributes[i].darr

\* C6, for the values <= 0 alone, and up to rounding.
C6_NonPositiveRoundTrip ==
    (WrittenAndRead /\ version >= RaveIO_ODIM_Version_2_4) =>
        \A i \in AttrIndices :
            (IsPowerDouble(origAttributes[i]) /\ origAttributes[i].d.m <= 0) =>
                WithinRounding(attributes[i].d, origAttributes[i].d)

\* 10*log10(1000*v)+30 for v > 0, v itself for v <= 0.
ExpectedDbm(v) ==
    IF v.m > 0
    THEN FAddInt(FMulInt(Log10(FMulInt(v, 1000)), 10), 30)
    ELSE v

\* C7: on write to version >= 2.4 a power double v, and each element v of a
\* how/TXpower array, becomes 10*log10(1000*v)+30 when v > 0 and stays v
\* when v <= 0; the array keeps its length and the order of its elements.
C7_PowerWrite ==
    (Written /\ version >= RaveIO_ODIM_Version_2_4) =>
        \A i \in AttrIndices :
            /\ IsPowerDouble(origAttributes[i]) =>
                  attributes[i].d = ExpectedDbm(origAttributes[i].d)
            /\ IsTXpowerArray(origAttributes[i]) =>
                  /\ Len(attributes[i].darr) = Len(origAttributes[i].darr)
                  /\ \A k \in 1..Len(origAttributes[i].darr) :
                        attributes[i].darr[k] =
                            ExpectedDbm(origAttributes[i].darr[k])

\* A written how/TXpower array of two elements, the first <= 0 and kept,
\* the second > 0 and converted.
C7_Witness ==
    /\ Written
    /\ version = RaveIO_ODIM_Version_2_4
    /\ IsTXpowerArray(origAttributes[1])
    /\ Len(origAttributes[1].darr) = 2
    /\ origAttributes[1].darr[1].m <= 0
    /\ origAttributes[1].darr[2].m > 0
    /\ attributes[1].darr[1] = origAttributes[1].darr[1]
    /\ attributes[1].darr[2] # origAttributes[1].darr[2]

\* C8: for every version below 2.4 the three conversion functions leave
\* every attribute unchanged and return 1.
C8_NoConversionBelow24 ==
    version < RaveIO_ODIM_Version_2_4 =>
        /\ attributes = origAttributes
        /\ howOps # << >> => howRet = 1

\* Version 2.3: a non-zero how/gasattn went through the list conversion and
\* the read conversion.
C8_Witness ==
    /\ version = RaveIO_ODIM_Version_2_4 - 1
    /\ howOps = << "fromInternalAll", "toInternal" >>
    /\ origAttributes[1].name = "how/gasattn"
    /\ origAttributes[1].format = "Double"
    /\ origAttributes[1].d.m # 0
    /\ howRet = 1

\* ---- properties of the source-string functions

\* The C string held in the buffer: its bytes before the first NUL.
RECURSIVE CStringFrom(_, _)
CStringFrom(bytes, i) ==
    IF i > Len(bytes) \/ bytes[i] = NUL THEN << >>
    ELSE << bytes[i] >> \o CStringFrom(bytes, i + 1)

BufString == CStringFrom(buf.bytes, 1)

\* The key of a token is its text up to and with the first ":", its value
\* the text after it.
TokenHasKey(token, key) ==
    Len(token) >= Len(key) /\ SubSeq(token, 1, Len(key)) = key
TokenValue(token, key) == SubSeq(token, Len(key) + 1, Len(token))

HasToken(key) ==
    \E k \in 1..Len(sourceTokens) : TokenHasKey(sourceTokens[k], key)
FirstToken(key) ==
    sourceTokens[CHOOSE k \in 1..Len(sourceTokens) :
                    /\ TokenHasKey(sourceTokens[k], key)
                    /\ \A j \in 1..(k - 1) : ~ TokenHasKey(sourceTokens[j], key)]

\* The buffer holds the whole source and more.
LargeBuffer == buflen >= Len(source) + 2

\* C9: with a large enough buffer getIdFromSource returns 1 with buf holding
\* the value of the token whose key is the requested key, and returns 0
\* when no token has that key.
C9_ValueOfKey ==
    (sourcePc = "getIdFromSource" /\ LargeBuffer) =>
        IF HasToken(id)
        THEN sourceResult = 1 /\ BufString = TokenValue(FirstToken(id), id)
        ELSE sourceResult = 0

\* No token holds the text of a key inside its value.
KeysOnlyAsKeys ==
    \A k \in 1..Len(sourceTokens) :
        \A key \in Ids :
            strstr(Tail(sourceTokens[k]), key) = 0

\* C9 holds for the sources where a key's text occurs only as a key.
C9_ValueOfKeyWhenUnambiguous ==
    KeysOnlyAsKeys => C9_ValueOfKey

\* C10: getNodOrCmtFromSource returns the CMT value only when the source
\* has no NOD: entry; when a NOD: entry exists the result is the NOD value
\* or a failure.  (Stated for the sources where the text "NOD:" occurs only
\* as a key.)
C10_CmtOnlyWithoutNod ==
    (sourcePc = "getNodOrCmtFromSource" /\ KeysOnlyAsKeys /\ HasToken(NOD)) =>
        \/ sourceResult = 0
        \/ BufString = TokenValue(FirstToken(NOD), NOD)

\* The buffer as the caller passed it: nothing was written.
BufUntouched ==
    buf = [bytes |-> [i \in 1..buflen |-> Unset], overflow |-> FALSE]

\* The bytes of the buffer that were written.
BytesWritten == Cardinality({ i \in 1..Len(buf.bytes) : buf.bytes[i] # Unset })

\* value is a full value of the key in the source: it follows an occurrence
\* of the key, holds no comma and ends at a comma or at the end of the source.
IsFullValueOf(value, key) ==
    /\ \A i \in 1..Len(value) : value[i] # ","
    /\ \E p \in 1..(Len(source) + 1) :
          /\ p > Len(key)
          /\ SubSeq(source, p - Len(key), p - 1) = key
          /\ SubSeq(source, p, p + Len(value) - 1) = value
          /\ p + Len(value) - 1 <= Len(source)
          /\ (p + Len(value) > Len(source) \/ source[p + Len(value)] = ",")

\* C11: getIdFromSource never truncates and never overflows: when the value
\* and its NUL do not fit in buflen bytes (also when buflen = 0) it returns 0
\* and writes nothing; when it returns 1 it has written the full value and
\* the NUL and nothing else, at most buflen bytes.
C11_NoTruncationNoOverflow ==
    sourcePc = "getIdFromSource" =>
        /\ ~ buf.overflow
        /\ sourceResult = 0 => BufUntouched
        /\ sourceResult = 1 =>
              /\ IsFullValueOf(BufString, id)
              /\ BytesWritten = Len(BufString) + 1
              /\ Len(BufString) + 1 <= buflen
              /\ \A i \in 1..Len(buf.bytes) :
                    i > Len(BufString) + 1 => buf.bytes[i] = Unset
        /\ (KeysOnlyAsKeys /\ HasToken(id)
              /\ Len(TokenValue(FirstToken(id), id)) + 1 > buflen)
             => sourceResult = 0

\* C11 witness: a value that does not fit a buffer of at least one byte was
\* looked up, and nothing was written.
C11_Witness ==
    /\ sourcePc = "getIdFromSource"
    /\ KeysOnlyAsKeys /\ HasToken(id)
    /\ buflen >= 1
    /\ Len(TokenValue(FirstToken(id), id)) + 1 > buflen
    /\ sourceResult = 0
    /\ BufUntouched

\* ---- properties of getBoundingBox

LessEq(a, b) == a # NaN /\ b # NaN /\ a <= b

\* The azimuths 0, 20, ..., 340.
BoxAzimuths == { 20 * k : k \in 0..17 }

\* C12: getBoundingBox samples exactly 18 bin positions, at the azimuths
\* 0, 20, ..., 340 and the given range, and returns the minimum and maximum
\* latitude and longitude over them: every sample lies inside the box, each
\* bound is attained by a sample, latMin <= latMax and lonMin <= lonMax.
C12_BoundingBox ==
    boxPc = "done" =>
        /\ Len(boxSamples) = 18
        /\ { boxSamples[k][1] : k \in 1..Len(boxSamples) } = BoxAzimuths
        /\ \A k \in 1..Len(boxSamples) :
              /\ LessEq(latMin, boxSamples[k][2])
              /\ LessEq(boxSamples[k][2], latMax)
              /\ LessEq(lonMin, boxSamples[k][3])
              /\ LessEq(boxSamples[k][3], lonMax)
        /\ \E k \in 1..Len(boxSamples) : latMin = boxSamples[k][2]
        /\ \E k \in 1..Len(boxSamples) : latMax = boxSamples[k][2]
        /\ \E k \in 1..Len(boxSamples) : lonMin = boxSamples[k][3]
        /\ \E k \in 1..Len(boxSamples) : lonMax = boxSamples[k][3]
        /\ LessEq(latMin, latMax)
        /\ LessEq(lonMin, lonMax)

\* Every sampled latitude is defined.
BoxSamplesDefined ==
    \A k \in 1..Len(boxSamples) : boxSamples[k][2] # NaN

\* C12 holds of the calls in which no sampled latitude is a NaN.
C12_BoundingBoxWhenDefined ==
    BoxSamplesDefined => C12_BoundingBox

\* ---- properties of the composite generator

\* The generations: those returned and the one under way.
Generations == { emitted[k] : k \in 1..Len(emitted) } \cup {generation}

\* The pixels written in a generation (positions in its area).
PixelsWritten(e) == 1..Len(e.raster)

PickedVolume(e, k) == e.config.sources[e.picks[k]]

\* C13: when two or more sources are at equal distance from the pixel
\* (NEAREST) or yield equal sampled heights (HEIGHT), the generator selects
\* the one that was added first, for every pixel and order of add() calls.
C13_TieBreakFirstAdded ==
    \A e \in Generations :
        \A k \in PixelsWritten(e) :
            \A j \in 1..Len(e.config.sources) :
                SelectionKey(e.config, e.config.sources[j], e.area[k])
                  = SelectionKey(e.config, PickedVolume(e, k), e.area[k])
                => e.picks[k] <= j

\* C13 witness: two different sources at equal distance of a pixel, added
\* in the order B, A, and a raster returned with the value of B there.
C13_Witness ==
    \E e \in Generations :
        \E k \in PixelsWritten(e) :
            /\ e.config.sources = <<"B", "A">>
            /\ GroundDistance("A", e.area[k]) = GroundDistance("B", e.area[k])
            /\ e.picks[k] = 1
            /\ e.raster[k] = ProductValue(e.config, "B", e.area[k])
            /\ e.raster[k] # ProductValue(e.config, "A", e.area[k])

Misconfigured(c) ==
    \/ Len(c.sources) = 0
    \/ Len(c.parameters) = 0
    \/ c.product = "PPI" /\ "elevationAngle" \notin c.isset
    \/ c.product \in {"CAPPI", "PCAPPI", "PMAX"} /\ "height" \notin c.isset
    \/ c.product = "PMAX" /\ "range" \notin c.isset

\* C15: nearest() on a generator with no sources, no parameters or without
\* the parameter its product needs fails with InvalidConfig before any
\* pixel is written, returns no raster and leaves the generator and the
\* sources unchanged.
C15_ConfigErrorsAtomic ==
    [][ /\ Misconfigured(composite') =>
              /\ compState' = "Configuring"
              /\ generation' = NoGeneration
              /\ emitted' = << >>
              /\ compRet' \notin {"generating", "raster"}
        /\ compRet' = "InvalidConfig" =>
              /\ Misconfigured(composite)
              /\ UNCHANGED <<composite, compState, generation, emitted,
                             volumes>>
      ]_vars

\* C15 witness: nearest() has failed on a CAPPI generator that has a source
\* and a parameter but no height.
C15_Witness ==
    /\ compRet = "InvalidConfig"
    /\ composite.product = "CAPPI"
    /\ composite.sources # << >>
    /\ composite.parameters # << >>
    /\ "height" \notin composite.isset
    /\ generation = NoGeneration /\ emitted = << >>

PcappiValue(e, k) ==
    ScanValue(PickedVolume(e, k),
              PcappiScan(PickedVolume(e, k), e.area[k], e.config.height),
              e.area[k])

PickedDistance(e, k) == GroundDistance(PickedVolume(e, k), e.area[k])

\* C17: PMAX as the design states it: for a pixel at a ground distance
\* greater than the range threshold the output is the vertical maximum, and
\* for one not greater the PCAPPI value at the configured height.
C17_PmaxMaxBeyondRange ==
    \A e \in Generations :
        e.config.product = "PMAX" =>
            \A k \in PixelsWritten(e) :
                IF PickedDistance(e, k) > e.config.range
                THEN e.raster[k] = VerticalMax(PickedVolume(e, k), e.area[k])
                ELSE e.raster[k] = PcappiValue(e, k)

\* C17 as amended: for a pixel at a ground distance greater than the range
\* threshold the output is the PCAPPI value at the configured height, and
\* for one not greater the vertical maximum over all elevations.
C17_PmaxMaxWithinRange ==
    \A e \in Generations :
        e.config.product = "PMAX" =>
            \A k \in PixelsWritten(e) :
                IF PickedDistance(e, k) > e.config.range
                THEN e.raster[k] = PcappiValue(e, k)
                ELSE e.raster[k] = VerticalMax(PickedVolume(e, k), e.area[k])

\* C17 witness: a PMAX pixel within the range whose vertical maximum is not
\* its PCAPPI value.
C17_Witness ==
    \E e \in Generations :
        \E k \in PixelsWritten(e) :
            /\ e.config.product = "PMAX"
            /\ PickedDistance(e, k) <= e.config.range
            /\ e.raster[k] = VerticalMax(PickedVolume(e, k), e.area[k])
            /\ e.raster[k] # PcappiValue(e, k)

\* C18: the configured range is the limit within which PMAX uses the
\* vertical maximum; a pixel outside this range gets what the PCAPPI
\* product gives, one inside it the maximum of the samples of its column.
C18_PmaxRangeLimit ==
    \A e \in Generations :
        e.config.product = "PMAX" =>
            \A k \in PixelsWritten(e) :
                LET v == PickedVolume(e, k)
                    x == e.area[k]
                    pcappi == [e.config EXCEPT !.product = "PCAPPI"]
                IN  /\ PickedDistance(e, k) > e.config.range =>
                          e.raster[k] = PixelValue(pcappi, x)
                    /\ PickedDistance(e, k) <= e.config.range =>
                          /\ \A i \in Scans(v) :
                                SampleScan(v, i, x) # NODATA =>
                                    e.raster[k] >= SampleScan(v, i, x)
                          /\ \/ \E i \in Scans(v) :
                                    e.raster[k] = SampleScan(v, i, x)
                             \/ e.raster[k] = NODATA

\* C18 witness: a PMAX pixel outside the range whose PCAPPI value is not
\* the vertical maximum.
C18_Witness ==
    \E e \in Generations :
        \E k \in PixelsWritten(e) :
            /\ e.config.product = "PMAX"
            /\ PickedDistance(e, k) > e.config.range
            /\ e.raster[k] = PcappiValue(e, k)
            /\ e.raster[k] # VerticalMax(PickedVolume(e, k), e.area[k])
            /\ e.raster[k] # NODATA

AboveBothBeams(e, k) ==
    LET v == PickedVolume(e, k)
        x == e.area[k]
    IN  /\ volumes[v].elevs = <<5, 10>>
        /\ ScanHeight(v, 1, x) < e.config.height
        /\ ScanHeight(v, 2, x) < e.config.height
        /\ 2 * (e.config.height - ScanHeight(v, 2, x))
              > VerticalExtent(GroundDistance(v, x))

C26_FitsThenSucceeds ==
    (/\ sourcePc = "getIdFromSource"
     /\ KeysOnlyAsKeys
     /\ HasToken(id)
     /\ Len(TokenValue(FirstToken(id), id)) + 1 <= buflen)
    => (sourceResult = 1 /\ BufString = TokenValue(FirstToken(id), id))

\* The same with one byte to spare (len + 1 < buflen) holds.
C26_SpareByteThenSucceeds ==
    (/\ sourcePc = "getIdFromSource"
     /\ KeysOnlyAsKeys
     /\ HasToken(id)
     /\ Len(TokenValue(FirstToken(id), id)) + 1 < buflen)
    => (sourceResult = 1 /\ BufString = TokenValue(FirstToken(id), id))

\* An attribute the conversions are about: a double with one of the listed
\* names, or a double array named how/TXpower.
IsListed(a) == IsScaledDouble(a) \/ IsPowerDouble(a) \/ IsTXpowerArray(a)

\* C27: for every version the conversions leave unchanged every attribute
\* whose name is not one of the listed names and every listed attribute
\* whose format is not double (double array for how/TXpower), and they
\* return 1.
C27_OnlyListedAttributesChange ==
    howOps # << >> =>
        /\ howRet = 1
        /\ \A i \in AttrIndices :
              ~ IsListed(origAttributes[i]) => attributes[i] = origAttributes[i]

\* C27 witness: a file of version 2.4 or later was written and read with a
\* double that is not zero under a name that is not listed, or a
\* how/gasattn that is a long.
C27_Witness ==
    /\ WrittenAndRead
    /\ version >= RaveIO_ODIM_Version_2_4
    /\ \/ /\ origAttributes[1].name = "how/wavelength"
          /\ origAttributes[1].d # Zero
          /\ attributes[1] = origAttributes[1]
       \/ /\ origAttributes[1].name = "how/gasattn"
          /\ origAttributes[1].format = "Long"
          /\ attributes[1] = origAttributes[1]

\* The site frame of a Coordinates object, and its bin position.
SiteFrame(c) == <<c.p01, c.p02, c.p03, c.e11, c.e12, c.e13, c.e21, c.e22, c.e23>>
BinPosition(c) == <<c.p1, c.p2, c.p3, c.phiBin, c.thetaBin>>

\* C28: getBoundingBox leaves the site frame unchanged, and after it
\* returns the bin position is the one for azimuth 340 degrees at the given
\* range, whatever position had been set before the call.
C28_BinPositionAfterBoundingBox ==
    boxPc = "done" =>
        /\ SiteFrame(boxCoords) = SiteFrame(boxCoords0)
        /\ BinPosition(boxCoords)
              = BinPosition(setBinPosition(boxCoords0, 340, boxRange))

\* C28 witness: the call returned and the bin position is not that of
\* before the call, which was not that of the site.
C28_Witness ==
    /\ boxPc = "done"
    /\ BinPosition(boxCoords0)
          # BinPosition(setBinPosition(boxCoords0, 0, 0))
    /\ BinPosition(boxCoords) # BinPosition(boxCoords0)

\* ---- properties of the geometry round trip

OneMetre == FxInt(1)
RoundTripError == FxAbs(FxSub(geomBeam, geomB))

\* C25: for an elevation of 0 to 60 degrees and a slant range b of 1 km to
\* 250 km, beamFromEtaH(eta, heightFromEtaBeam(eta, b)) is within one metre
\* of b.
C25_GeometryRoundTrip ==
    geomPc = "done" => ~FxLess(OneMetre, RoundTripError)

\* The round trip of a range that no float holds, at the steepest elevation:
\* the result differs from b.
C25_Witness ==
    /\ geomPc = "done"
    /\ geomEta = DegToRad(60)
    /\ float(geomB) # geomB
    /\ geomBeam # geomB
    /\ geomH = heightFromEtaBeam(geomEta, geomB)

\* ---- properties of addQualityFields

FieldIndices == 1..Len(fields)
NodesAdded == SubSeq(nodelist, Len(nodelist0) + 1, Len(nodelist))
\* The position in the nodes added of the dataset of quality field k, or 0.
DataPosition(k) ==
    IF \E i \in 1..Len(NodesAdded) :
           /\ NodesAdded[i].kind = "data"
           /\ NodesAdded[i].name = NodeName(nodeNameLen, k)
    THEN CHOOSE i \in 1..Len(NodesAdded) :
           /\ NodesAdded[i].kind = "data"
           /\ NodesAdded[i].name = NodeName(nodeNameLen, k)
    ELSE 0
FieldAdded(k) == DataPosition(k) > 0
LastTried == Len(fieldsTried)

\* C29: addQualityFields writes the fields in list order under
\* <name>/quality1 .. <name>/qualityN, stops at the first field that is NULL
\* or is not added and tries no later field, leaves what was written before,
\* and returns 1 exactly if every field was added; with a name of 1024
\* characters or more it returns 0 and writes nothing.
C29_AddQualityFields ==
    qualityPc = "done" =>
        IF nodeNameLen >= NameSize
        THEN qualityResult = 0 /\ nodelist = nodelist0
        ELSE /\ SubSeq(nodelist, 1, Len(nodelist0)) = nodelist0
             /\ fieldsTried = [k \in 1..LastTried |-> k]
             /\ LastTried <= Len(fields)
             /\ \A k \in 1..(LastTried - 1) : FieldAdded(k)
             /\ LastTried < Len(fields) => ~FieldAdded(LastTried)
             /\ \A i \in 1..Len(NodesAdded) :
                    NodesAdded[i].name.quality \in 1..LastTried
             /\ \A k \in FieldIndices : fields[k].null => ~FieldAdded(k)
             /\ \A j, k \in FieldIndices :
                    FieldAdded(j) /\ FieldAdded(k) /\ j < k
                        => DataPosition(j) < DataPosition(k)
             /\ qualityResult = 1 <=> \A k \in FieldIndices : FieldAdded(k)

\* A call that added its first field and was stopped by its second.
C29_Witness ==
    /\ qualityPc = "done"
    /\ Len(fields) = MaxFields
    /\ FieldAdded(1)
    /\ LastTried = 2 /\ ~FieldAdded(2)
    /\ qualityResult = 0

\* ---- properties of the vertical-profile binding

LiveWrappers == { w \in WrapperIds : wrappers[w].alive }
WrappersOf(n) == { w \in LiveWrappers : wrappers[w].vp = n }
WasBound == pyLast.arg # NULL /\ pyLast.before.natives[pyLast.arg].binding # NULL

\* A native profile has at most one wrapper, the one bound to it, and its
\* reference count is one per wrapper plus the references the callers hold;
\* a profile without a reference is freed.
WrapperBinding ==
    /\ \A n \in NativeIds :
          /\ Cardinality(WrappersOf(n)) <= 1
          /\ natives[n].binding # NULL => WrappersOf(n) = {natives[n].binding}
          /\ natives[n].refs = Cardinality(WrappersOf(n)) + held[n]
          /\ natives[n].alive <=> natives[n].refs > 0
    /\ \A w \in LiveWrappers :
          /\ wrappers[w].vp # NULL
          /\ natives[wrappers[w].vp].alive
          /\ natives[wrappers[w].vp].binding = w
          /\ wrappers[w].ob_refcnt >= 1

\* New on a bound profile returns its wrapper, with one more Python
\* reference, and leaves every native reference count as it was.
NewOnBound ==
    pyLast.op = "New" /\ WasBound =>
        /\ pyLast.result = pyLast.before.natives[pyLast.arg].binding
        /\ wrappers[pyLast.result].ob_refcnt
               = pyLast.before.wrappers[pyLast.result].ob_refcnt + 1
        /\ natives = pyLast.before.natives

\* New that fails leaves the heap as it was; New that makes a wrapper
\* leaves one more reference on its profile, the wrapper's.
NewBalance ==
    pyLast.op = "New" /\ ~WasBound =>
        IF pyLast.result = NULL
        THEN Heap(natives, wrappers) = pyLast.before
        ELSE LET n == wrappers[pyLast.result].vp
             IN /\ ~pyLast.before.wrappers[pyLast.result].alive
                /\ wrappers[pyLast.result].ob_refcnt = 1
                /\ pyLast.arg # NULL => n = pyLast.arg
                /\ natives[n].binding = pyLast.result
                /\ natives[n].refs = pyLast.before.natives[n].refs + 1
                /\ \A m \in NativeIds \ {n} :
                       natives[m] = pyLast.before.natives[m]

\* The deallocation unbinds the wrapper and releases one native reference.
DeallocBalance ==
    pyLast.op = "dealloc" =>
        LET n == pyLast.before.wrappers[pyLast.arg].vp
        IN /\ ~wrappers[pyLast.arg].alive
           /\ natives[n].binding = NULL
           /\ natives[n].refs = pyLast.before.natives[n].refs - 1
           /\ \A m \in NativeIds \ {n} : natives[m] = pyLast.before.natives[m]

\* C30: after any sequence of PyVerticalProfile_New and deallocations a
\* native profile has at most one wrapper bound to it and every live
\* wrapper holds exactly one native reference; New on a bound profile
\* returns the existing wrapper with one more Python reference and the
\* native count unchanged; New releases its temporary reference on every
\* path; the deallocation unbinds and releases exactly one reference.
C30_ReferenceBalance ==
    /\ WrapperBinding
    /\ NewOnBound
    /\ NewBalance
    /\ DeallocBalance

\* New has just been called on a profile that had a wrapper, and returned
\* that wrapper.
C30_Witness ==
    /\ pyLast.op = "New"
    /\ WasBound
    /\ pyLast.result # NULL
    /\ wrappers[pyLast.result].ob_refcnt = 2
    /\ \E w \in LiveWrappers : w # pyLast.result

\* ---- properties of the Cartesian composite

CartesianObjects == { cartesian.objects[i] : i \in 1..Len(cartesian.objects) }
ValidAt(x) == { o \in CartesianObjects : HasValue(o, x) }
NearestValid(x) ==
    CHOOSE o \in ValidAt(x) :
        \A p \in ValidAt(x) : CartesianDistance(o, x) <= CartesianDistance(p, x)
PackedValueOf(o, x) ==
    Pack(CartesianProducts[o].data[x].phys, cartesian.gain, cartesian.offset)

\* C21: in the raster that nearest returns a pixel is nodata exactly when no
\* object has a value there; with one object that has a value the pixel is
\* that object's value, whatever its distance; with several it is the value
\* of the one whose site is nearest to the pixel.
C21_CartesianSelection ==
    cartesianState = "Emitted" =>
        \A x \in CartesianPixels :
            /\ cartesianRaster[x] = NODATA <=> ValidAt(x) = {}
            /\ ValidAt(x) # {} =>
                   cartesianRaster[x] = PackedValueOf(NearestValid(x), x)

\* The same for the object the value is copied from: none exactly when no
\* object has a value, else the nearest of those that have one.
C21_SelectionOfObject ==
    cartesianState = "Emitted" =>
        \A x \in CartesianPixels :
            /\ cartesianPicked[x] = "none" <=> ValidAt(x) = {}
            /\ ValidAt(x) # {} =>
                   /\ cartesianPicked[x] = NearestValid(x)
                   /\ cartesianRaster[x] = PackedValueOf(NearestValid(x), x)

\* C22: whatever the gain (not 0) and the offset, a pixel that holds the
\* packed value of a valid physical value holds neither the nodata code nor
\* the undetect code.
C22_ReservedCodesDistinct ==
    \A x \in CartesianPixels :
        cartesianPicked[x] \in CartesianIds =>
            /\ cartesianRaster[x] # NODATA
            /\ cartesianRaster[x] # UNDETECT

\* The packed value is the rounded quotient brought into the native range.
C22_PackedInNativeRange ==
    \A x \in CartesianPixels :
        cartesianPicked[x] \in CartesianIds =>
            LET raw == RoundDiv(CartesianProducts[cartesianPicked[x]].data[x].phys
                                    - cartesian.offset, cartesian.gain)
            IN  /\ cartesianRaster[x] \in NativeMin..NativeMax
                /\ raw \in NativeMin..NativeMax => cartesianRaster[x] = raw

\* ---- quality propagation

FieldOf(g, p, k) ==
    LET fieldsOfScan == volumes[PickedVolume(g, p)].quality[g.scans[p]]
        task == g.config.qualityflags[k]
    IN  IF task \in DOMAIN fieldsOfScan THEN fieldsOfScan[task] ELSE NODATA

\* C23: for every pixel of an emitted raster and every requested how/task,
\* the quality band holds the value at the bin sampled for the pixel's value
\* of the quality field with that how/task of the scan, of the selected
\* source, that supplied the value; it holds nodata when that scan has no
\* such field.  (The value itself is what that scan holds.)
C23_QualityFollowsValue ==
    \A n \in 1..Len(emitted) :
        LET g == emitted[n]
        IN  \A p \in PixelsWritten(g) :
              /\ g.raster[p] = ScanValue(PickedVolume(g, p), g.scans[p], g.area[p])
              /\ \A k \in 1..Len(g.config.qualityflags) :
                    IF g.scans[p] = 0 \/ g.raster[p] = NODATA
                    THEN g.quality[p][k] = NODATA
                    ELSE IF FieldOf(g, p, k) = NODATA
                    THEN g.quality[p][k] = NODATA
                    ELSE g.quality[p][k]
                            = (FieldOf(g, p, k) + g.bins[p]) % NODATA

\* An emitted pixel whose value comes from a scan other than the first of a
\* source other than the first added, with a quality field for one of the
\* requested how/task names and none for another.
C23_Witness ==
    \E n \in 1..Len(emitted) :
        LET g == emitted[n]
        IN  \E p \in PixelsWritten(g) :
              /\ g.picks[p] > 1
              /\ g.scans[p] > 1
              /\ g.raster[p] # NODATA
              /\ \E k \in 1..Len(g.config.qualityflags) : g.quality[p][k] # NODATA
              /\ \E k \in 1..Len(g.config.qualityflags) : g.quality[p][k] = NODATA

\* ---- nearest run by concurrent workers

WorkersDone == \A t \in Threads : parTodo[t] = << >>

\* C24: when the workers are done, every pixel has been written by exactly
\* one worker, and the raster is the raster of the sequential run, whatever
\* the interleaving of the workers was.
C24_ParallelDeterministic ==
    WorkersDone =>
        /\ \A px \in ParallelPixels : Len(parWrites[px]) = 1
        /\ parRaster = SequentialRaster

\* Every pixel is written by the worker that owns its band only, at most once
\* at any time and exactly once when the workers are done.
C24_NoWriteAliasing ==
    \A px \in ParallelPixels :
        /\ parWrites[px] \in {<< >>, <<px[1]>>}
        /\ WorkersDone => parWrites[px] = <<px[1]>>

====
